---- MODULE Spec2Model ----
(***************************************************************************)
(* Model of the MethodVerse parameter library:                             *)
(*   - the generic tagged value  Parameter      (include/parameter.h,      *)
(*     src/parameter.cpp): a std::variant value, an observer list and a    *)
(*     handler map keyed by the notifier's runtime type;                   *)
(*   - the operation policy table op_policy<C1, C2, Op> and its unit rule  *)
(*     unit_of (operation_policy.h and the older primitive_operators_*.h); *)
(*   - the typed value container ParameterBase<T, Unit> and its binary     *)
(*     operators, and the older elementWiseBinaryOp.                       *)
(***************************************************************************)
EXTENDS Integers, Sequences, FiniteSets, TLC

VARIABLES value_, observers_, handlers_, type_index_,
          stored, last, calls,
          request, resolution,
          cont, cres, copied, frames,
          parameters_, param_map_

vars == <<value_, observers_, handlers_, type_index_, stored, last, calls,
          request, resolution, cont, cres, copied, frames,
          parameters_, param_map_>>

paramVars == <<value_, observers_, handlers_, type_index_, stored, last, calls>>
policyVars == <<request, resolution>>
contVars == <<cont, cres>>
regVars == <<parameters_, param_map_>>

(***************************************************************************)
(* Bounds of the model.                                                    *)
(***************************************************************************)
\* longest observer list the model builds with addObserver
MaxObservers == 2
\* largest integer payload of a stored value
MaxPayload == 1
\* largest offset of an Eigen coefficient from its integer payload, counted in
\* units of the double machine epsilon 2^-52
MaxFine == 1

(***************************************************************************)
(* Part 1: the tagged value Parameter.                                     *)
(***************************************************************************)

\* The alternatives of ParameterValue, in the order of the std::variant.
KindList ==
    << "int", "double", "bool", "string",
       "vector_int", "vector_double", "vector_bool", "vector_string",
       "Vector3d", "Matrix3d", "Quaterniond",
       "vector_Vector3d", "vector_Matrix3d", "vector_Quaterniond",
       "EnumHolder" >>

Kinds == { KindList[i] : i \in 1..Len(KindList) }

\* is_parameter_value_type_v<T>: T is one of the alternatives.
is_parameter_value_type_v(T) == T \in Kinds

\* variant_index_of<T, ParameterValue>(): zero-based position of T.
variant_index_of(T) == (CHOOSE i \in 1..Len(KindList) : KindList[i] = T) - 1

\* The enum types of the tests and their enumerators (underlying integers).
EnumTypes == {"ProSat", "ScanMode"}
NoEnum == "none"
Enumerators ==
    { [etype |-> "ProSat", ord |-> 0], [etype |-> "ProSat", ord |-> 1],
      [etype |-> "ScanMode", ord |-> 0], [etype |-> "ScanMode", ord |-> 1],
      [etype |-> "ScanMode", ord |-> 2] }

\* A ParameterValue: the active alternative, its payload and, for an
\* EnumHolder, the std::type_index of the enum type.  The number held is
\* v + fine * 2^-52; fine is 0 except for the Eigen values built by EigenValue.
PrimValue(k, n) == [kind |-> k, v |-> n, etype |-> NoEnum, fine |-> 0]

\* EnumHolder{static_cast<int>(val), std::type_index(typeid(EnumType))}
EnumHolder(n, t) == [kind |-> "EnumHolder", v |-> n, etype |-> t, fine |-> 0]

\* The kinds operator== compares with isApprox, and an Eigen value whose
\* coefficient is n + d * 2^-52.
EigenKinds == {"Vector3d", "Matrix3d", "Quaterniond"}
EigenValue(k, n, d) == [kind |-> k, v |-> n, etype |-> NoEnum, fine |-> d]

\* static_cast<int>(val) of an enumerator, and static_cast<EnumType>(int).
EnumToInt(e) == e.ord
IntToEnum(t, n) == [etype |-> t, ord |-> n]

\* The kinds whose values the model stores through the typed entry points.
InputKinds == {"int", "double", "bool", "Vector3d"}
InputValues == { PrimValue(k, n) : k \in InputKinds, n \in 0..MaxPayload }

\* The ParameterValue arguments of setValue / Parameter(const ParameterValue&):
\* any alternative, an EnumHolder included.
VariantValues ==
    InputValues \cup { EnumHolder(e.ord, e.etype) : e \in Enumerators }

\* The kinds a caller asks to extract.
ExtractKinds == InputKinds \cup {"string", "EnumHolder"}

\* The Parameter objects of the model and their runtime types: REGISTER_PARAMETER
\* derives TE and TR from Parameter.
Objs == {"te", "tr"}
Types == {"Parameter", "TE", "TR"}
DynType(p) == IF p = "te" THEN "TE" ELSE "TR"
NULL == "nullptr"

HandlerIds == {"h1", "h2"}
NoHandler == "nohandler"

\* Result of an operation: how it ended and, when it returned, what it returned.
Returned(x) == [status |-> "ok", val |-> x]
Threw(e) == [status |-> e, val |-> [none |-> TRUE]]
Void == [status |-> "ok", val |-> [none |-> TRUE]]

\* The default-constructed ParameterValue: the first alternative, int 0.
DefaultValue == PrimValue("int", 0)

\* The values and handlers the notification scenarios draw from.
NotifyValues == { PrimValue("int", n) : n \in 0..MaxPayload }
NotifyEnumerators == { [etype |-> "ProSat", ord |-> 1] }
NotifyHandlerIds == HandlerIds
\* The objects the notification scenarios register observers on.
Notifiers == {"te"}

\* onNotified keyed by the static type of its parameter, const Parameter&.
onNotified_StaticType(o, notifier, hnd, vals) ==
    LET it == hnd[o]["Parameter"]
    IN  << [observer |-> o, notifier |-> notifier, handler |-> it,
            seen |-> IF it # NoHandler THEN vals[notifier] ELSE DefaultValue] >>

\* ---- Parameter::onNotified(notifier): look the notifier's runtime type up in
\* handlers_ and, when a handler is found, invoke it with the notifier.  Every
\* call of onNotified is logged with the handler it ran (NoHandler: none); the
\* handlers of the model read the notifier's value.
onNotified(o, notifier, hnd, vals) ==
    LET it == hnd[o][DynType(notifier)]
    IN  << [observer |-> o, notifier |-> notifier, handler |-> it,
            seen |-> IF it # NoHandler THEN vals[notifier] ELSE DefaultValue] >>

\* ---- Parameter::notifyObservers(): every non-null observer, in list order.
RECURSIVE notifyFrom(_, _, _, _, _)
notifyFrom(p, obs, hnd, vals, i) ==
    IF i > Len(obs[p]) THEN << >>
    ELSE (IF obs[p][i] # NULL
          THEN onNotified(obs[p][i], p, hnd, vals)
          ELSE << >>) \o notifyFrom(p, obs, hnd, vals, i + 1)

notifyObservers(p, obs, hnd, vals) == notifyFrom(p, obs, hnd, vals, 1)

\* an extraction that does not check the active alternative
StdGet_Unchecked(val, T) == Returned(val)

\* ---- std::get<T>(value_)
StdGet(val, T) ==
    IF val.kind = T THEN Returned(val) ELSE Threw("bad_variant_access")

\* getEnum without the comparison of the stored type identity
getEnumResult_NoTypeCheck(val, E) ==
    IF val.kind # "EnumHolder" THEN Threw("bad_variant_access")
    ELSE Returned(IntToEnum(E, val.v))

\* ---- Parameter::getEnum<EnumType>()
getEnumResult(val, E) ==
    IF val.kind # "EnumHolder" THEN Threw("bad_variant_access")
    ELSE IF val.etype # E THEN Threw("runtime_error")
    ELSE Returned(IntToEnum(E, val.v))

\* History of the latest copy among the Parameters (param) and among the
\* containers (cont): the copy dst, the original src, the value the original
\* held when it was copied, and whether either has been written since.
NoCopy == [dst |-> "-", src |-> "-", at |-> << >>,
           dstWritten |-> FALSE, srcWritten |-> FALSE]
Copied(p, q, val) == [dst |-> p, src |-> q, at |-> << val >>,
                      dstWritten |-> FALSE, srcWritten |-> FALSE]
Wrote(rec, x) ==
    IF rec.dst = x THEN [rec EXCEPT !.dstWritten = TRUE]
    ELSE IF rec.src = x THEN [rec EXCEPT !.srcWritten = TRUE]
    ELSE rec

\* ---- void Parameter::setValue(const ParameterValue& v)
SetValue(p, v) ==
    /\ value_' = [value_ EXCEPT ![p] = v]
    /\ calls' = notifyObservers(p, observers_, handlers_, value_')
    /\ stored' = [stored EXCEPT ![p] = v]
    /\ last' = [op |-> "setValue", obj |-> p, T |-> v.kind, res |-> Void]
    /\ copied' = [copied EXCEPT !.param = Wrote(@, p)]
    /\ UNCHANGED <<frames, regVars, observers_, handlers_, type_index_, policyVars, contVars>>

\* ---- Parameter& Parameter::operator=(T a)
Assign(p, v) ==
    /\ is_parameter_value_type_v(v.kind)
    /\ value_' = [value_ EXCEPT ![p] = v]
    /\ type_index_' = [type_index_ EXCEPT ![p] = variant_index_of(v.kind)]
    /\ calls' = notifyObservers(p, observers_, handlers_, value_')
    /\ stored' = [stored EXCEPT ![p] = v]
    /\ last' = [op |-> "assign", obj |-> p, T |-> v.kind, res |-> Void]
    /\ copied' = [copied EXCEPT !.param = Wrote(@, p)]
    /\ UNCHANGED <<frames, regVars, observers_, handlers_, policyVars, contVars>>

\* ---- void Parameter::setEnum(EnumType val)
SetEnum(p, e) ==
    /\ value_' = [value_ EXCEPT ![p] = EnumHolder(EnumToInt(e), e.etype)]
    /\ calls' = << >>
    /\ stored' = [stored EXCEPT ![p] = e]
    /\ last' = [op |-> "setEnum", obj |-> p, T |-> e.etype, res |-> Void]
    /\ copied' = [copied EXCEPT !.param = Wrote(@, p)]
    /\ UNCHANGED <<frames, regVars, observers_, handlers_, type_index_, policyVars, contVars>>

\* ---- EnumType Parameter::getEnum() const
GetEnum(p, E) ==
    /\ last' = [op |-> "getEnum", obj |-> p, T |-> E,
                res |-> getEnumResult(value_[p], E)]
    /\ calls' = << >>
    /\ UNCHANGED <<value_, observers_, handlers_, type_index_, stored, policyVars, contVars, copied, frames, regVars>>

\* ---- Parameter::operator T() const  and  T Parameter::operator()() const
Extract(p, T) ==
    /\ is_parameter_value_type_v(T)
    /\ last' = [op |-> "extract", obj |-> p, T |-> T,
                res |-> StdGet(value_[p], T)]
    /\ calls' = << >>
    /\ UNCHANGED <<value_, observers_, handlers_, type_index_, stored, policyVars, contVars, copied, frames, regVars>>

\* ---- void Parameter::addObserver(ObserverPtr observer)
AddObserver(p, o) ==
    /\ Len(observers_[p]) < MaxObservers
    /\ observers_' = [observers_ EXCEPT ![p] = Append(@, o)]
    /\ calls' = << >>
    /\ last' = [op |-> "addObserver", obj |-> p, T |-> "-", res |-> Void]
    /\ UNCHANGED <<value_, handlers_, type_index_, stored, policyVars, contVars, copied, frames, regVars>>

\* a removal of the first registration only
Remove_First(s, o) ==
    IF \A i \in 1..Len(s) : s[i] # o THEN s
    ELSE LET k == CHOOSE i \in 1..Len(s) : s[i] = o /\ \A j \in 1..(i - 1) : s[j] # o
         IN  SubSeq(s, 1, k - 1) \o SubSeq(s, k + 1, Len(s))

\* ---- void Parameter::removeObserver(ObserverPtr observer): erase-remove
Remove(s, o) == SelectSeq(s, LAMBDA x : x # o)

RemoveObserver(p, o) ==
    /\ observers_' = [observers_ EXCEPT ![p] = Remove(@, o)]
    /\ calls' = << >>
    /\ last' = [op |-> "removeObserver", obj |-> p, T |-> "-", res |-> Void]
    /\ UNCHANGED <<value_, handlers_, type_index_, stored, policyVars, contVars, copied, frames, regVars>>

\* ---- void Parameter::setNotificationHandler<NotifierType>(handler)
SetNotificationHandler(o, T, h) ==
    /\ handlers_' = [handlers_ EXCEPT ![o][T] = h]
    /\ calls' = << >>
    /\ last' = [op |-> "setNotificationHandler", obj |-> o, T |-> "-", res |-> Void]
    /\ UNCHANGED <<value_, observers_, type_index_, stored, policyVars, contVars, copied, frames, regVars>>

\* ---- void Parameter::notifyObservers() called directly
NotifyObservers(p) ==
    /\ calls' = notifyObservers(p, observers_, handlers_, value_)
    /\ last' = [op |-> "notifyObservers", obj |-> p, T |-> "-", res |-> Void]
    /\ UNCHANGED <<value_, observers_, handlers_, type_index_, stored, policyVars, contVars, copied, frames, regVars>>

\* ---- The same calls, statement by statement, with handlers that call back.
\* The call stack is finite: MaxDepth nested calls fit on it.
MaxDepth == 3

\* The handlers of these scenarios: Reader reads the notifier; Setter calls
\* setValue on the notifier every time it runs; SetterOnce calls it only
\* while the notifier does not yet hold the value it writes.
Reader == "h1"
Setter == "hset"
SetterOnce == "hsetonce"
StepHandlers == {Reader, Setter, SetterOnce}
HandlerTarget == PrimValue("int", 1)
Mutates(h, val) == h = Setter \/ (h = SetterOnce /\ val # HandlerTarget)

Running == [status |-> "running", val |-> [none |-> TRUE]]
StackOverflow == Threw("stack_overflow")

\* a body that notifies before it stores
Body_NotifyFirst(fn) == << "notify", "store" >>

\* ---- the statements of setValue and of operator=(T), in order:
\* value_ = v (and type_index_ = idx), then notifyObservers()
Body(fn) == << "store", "notify" >>

\* a setValue that does not notify while a notification of the same
\* parameter is under way
Guarded_WhileNotifying(fs, p) == \E k \in 1..Len(fs) : fs[k].obj = p

\* ---- setValue and notifyObservers keep no record of a notification under
\* way: a nested call is never suppressed
Guarded(fs, p) == FALSE

\* a call's frame: the statement it is at, the position of the loop of
\* notifyObservers, and whether a callback of this loop has called back
Frame(fn, p, v, outer) ==
    [fn |-> fn, obj |-> p, v |-> v, pc |-> 1, i |-> 1, nested |-> FALSE,
     guarded |-> Guarded(outer, p)]
Top == frames[Len(frames)]
SetTop(f) == [frames EXCEPT ![Len(frames)] = f]
Stmt(f) == IF f.pc > Len(Body(f.fn)) THEN "return" ELSE Body(f.fn)[f.pc]
Executing == frames # << >> /\ last.res = Running

\* p.setValue(v) or p = v called from outside any notification
Call(fn, p, v) ==
    /\ frames = << >>
    /\ frames' = << Frame(fn, p, v, << >>) >>
    /\ calls' = << >>
    /\ last' = [op |-> fn, obj |-> p, T |-> v.kind, res |-> Running]
    /\ UNCHANGED <<value_, observers_, handlers_, type_index_, stored,
                   policyVars, contVars, copied, regVars>>

\* value_ = v;  and in operator=(T): type_index_ = idx;
Store ==
    /\ Executing /\ Stmt(Top) = "store"
    /\ value_' = [value_ EXCEPT ![Top.obj] = Top.v]
    /\ type_index_' = IF Top.fn = "assign"
                      THEN [type_index_ EXCEPT ![Top.obj] = variant_index_of(Top.v.kind)]
                      ELSE type_index_
    /\ stored' = [stored EXCEPT ![Top.obj] = Top.v]
    /\ frames' = SetTop([Top EXCEPT !.pc = @ + 1])
    /\ copied' = [copied EXCEPT !.param = Wrote(@, Top.obj)]
    /\ UNCHANGED <<observers_, handlers_, last, calls, policyVars, contVars, regVars>>

\* one iteration of the loop of notifyObservers: onNotified of the next
\* observer, whose handler may call setValue on the notifier
NotifyNext ==
    /\ Executing /\ Stmt(Top) = "notify" /\ ~Top.guarded
    /\ Top.i <= Len(observers_[Top.obj])
    /\ LET p == Top.obj
           o == observers_[p][Top.i]
           it == IF o = NULL THEN NoHandler ELSE handlers_[o][DynType(p)]
           reenters == it # NoHandler /\ Mutates(it, value_[p])
       IN  /\ calls' =
                IF o = NULL THEN calls
                ELSE Append(calls,
                       [observer |-> o, notifier |-> p, handler |-> it,
                        seen |-> IF it # NoHandler THEN value_[p] ELSE DefaultValue,
                        arg |-> Top.v, depth |-> Len(frames),
                        nested |-> Top.nested])
           /\ IF ~reenters
              THEN frames' = SetTop([Top EXCEPT !.i = @ + 1]) /\ last' = last
              ELSE IF Len(frames) < MaxDepth
              THEN /\ frames' = Append(SetTop([Top EXCEPT !.i = @ + 1, !.nested = TRUE]),
                                       Frame("setValue", p, HandlerTarget, frames))
                   /\ last' = last
              ELSE /\ frames' = frames
                   /\ last' = [last EXCEPT !.res = StackOverflow]
    /\ UNCHANGED <<value_, observers_, handlers_, type_index_, stored,
                   policyVars, contVars, copied, regVars>>

\* the loop of notifyObservers is over
EndLoop ==
    /\ Executing /\ Stmt(Top) = "notify"
    /\ Top.guarded \/ Top.i > Len(observers_[Top.obj])
    /\ frames' = SetTop([Top EXCEPT !.pc = @ + 1])
    /\ UNCHANGED <<value_, observers_, handlers_, type_index_, stored, last,
                   calls, policyVars, contVars, copied, regVars>>

\* the call returns to its caller
Return ==
    /\ Executing /\ Stmt(Top) = "return"
    /\ frames' = SubSeq(frames, 1, Len(frames) - 1)
    /\ last' = IF Len(frames) = 1 THEN [last EXCEPT !.res = Void] ELSE last
    /\ UNCHANGED <<value_, observers_, handlers_, type_index_, stored,
                   calls, policyVars, contVars, copied, regVars>>

Step == Store \/ NotifyNext \/ EndLoop \/ Return

\* The values the comparison and copy scenarios draw from: every value of
\* VariantValues and column vectors a few machine epsilons away from them.
CompareValues ==
    VariantValues
      \cup { EigenValue("Vector3d", n, d) : n \in 0..MaxPayload, d \in 1..MaxFine }

\* an EnumHolder comparison that looks at the integer only
EnumHolder_eq_ValueOnly(a, b) == a.v = b.v

\* ---- bool EnumHolder::operator==(const EnumHolder& other) const
EnumHolder_eq(a, b) == (a.v = b.v) /\ (a.etype = b.etype)

\* ---- va.isApprox(vb) of Eigen with the default precision 1e-12:
\*   |va - vb|^2 <= prec^2 * min(|va|^2, |vb|^2).
\* Payloads that differ are at least about 1 apart, far more than 1e-12 times
\* the smaller one; with equal payloads n the distance is |fine difference|
\* epsilons and the bound is n * 1e-12 = n * 4503.6 epsilons.
isApprox(a, b) ==
    IF a.v # b.v THEN FALSE
    ELSE (IF a.fine >= b.fine THEN a.fine - b.fine ELSE b.fine - a.fine) * 10
            <= 45036 * a.v

\* The visitor of operator== on two values of the same alternative: isApprox
\* for the Eigen kinds (element by element for the vectors of them, which the
\* model holds with one element), operator== of the alternative otherwise.
ValueEquals(a, b) ==
    IF a.kind \in EigenKinds THEN isApprox(a, b)
    ELSE IF a.kind \in {"vector_Vector3d", "vector_Matrix3d", "vector_Quaterniond"}
    THEN isApprox(a, b)
    ELSE IF a.kind = "EnumHolder" THEN EnumHolder_eq(a, b)
    ELSE a.v = b.v

\* ---- bool Parameter::operator==(const Parameter& other) const
operator_eq(a, b) ==
    IF variant_index_of(a.kind) # variant_index_of(b.kind) THEN FALSE
    ELSE ValueEquals(a, b)

\* ---- bool Parameter::operator!=(const Parameter& other) const
operator_ne(a, b) == ~operator_eq(a, b)

\* p == q and p != q evaluated on the same two objects.
Compare(p, q) ==
    /\ last' = [op |-> "compare", obj |-> p, T |-> q,
                res |-> Returned([eq |-> operator_eq(value_[p], value_[q]),
                                  ne |-> operator_ne(value_[p], value_[q])])]
    /\ calls' = << >>
    /\ UNCHANGED <<value_, observers_, handlers_, type_index_, stored, policyVars, contVars, copied, frames, regVars>>

\* a copy that leaves the destination's value as it was
CopyFrom_KeepsValue(f, p, q) == f

\* Member-wise copy of one field from q into p.
CopyFrom(f, p, q) == [f EXCEPT ![p] = f[q]]

\* ---- Parameter::Parameter(const Parameter& other): p constructed from q
CopyConstruct(p, q) ==
    /\ p # q
    /\ value_' = CopyFrom(value_, p, q)
    /\ observers_' = CopyFrom(observers_, p, q)
    /\ handlers_' = CopyFrom(handlers_, p, q)
    /\ type_index_' = CopyFrom(type_index_, p, q)
    /\ stored' = [stored EXCEPT ![p] = stored[q]]
    /\ calls' = << >>
    /\ last' = [op |-> "copyConstruct", obj |-> p, T |-> q, res |-> Void]
    /\ copied' = [copied EXCEPT !.param = Copied(p, q, value_[q])]
    /\ UNCHANGED <<frames, regVars, policyVars, contVars>>

\* ---- Parameter& Parameter::operator=(const Parameter& other): p = q
CopyAssign(p, q) ==
    /\ IF p # q
       THEN /\ value_' = CopyFrom(value_, p, q)
            /\ observers_' = CopyFrom(observers_, p, q)
            /\ handlers_' = CopyFrom(handlers_, p, q)
            /\ type_index_' = CopyFrom(type_index_, p, q)
            /\ stored' = [stored EXCEPT ![p] = stored[q]]
            /\ copied' = [copied EXCEPT !.param = Copied(p, q, value_[q])]
       ELSE UNCHANGED <<value_, observers_, handlers_, type_index_, stored, copied>>
    /\ calls' = << >>
    /\ last' = [op |-> "copyAssign", obj |-> p, T |-> q, res |-> Void]
    /\ UNCHANGED <<frames, regVars, policyVars, contVars>>

\* ---- ParameterContainer: the registry of declared parameters.  The
\* parameters that can be declared, the name Name() gives each, and the
\* names that can be looked up; no parameter is named "c".
MaxAdds == 3
ParamPtrs == {"a1", "a2", "b1"}
Names == {"a", "b", "c"}
Name(x) == IF x = "b1" THEN "b" ELSE "a"

\* an insertion that keeps the entry a name already has
MapAssign_KeepFirst(m, k, x) == IF m[k] = NULL THEN [m EXCEPT ![k] = x] ELSE m

\* param_map_[param->Name()] = param
MapAssign(m, k, x) == [m EXCEPT ![k] = x]

\* ---- void ParameterContainer::Add(const std::shared_ptr<IParameter>& param)
Add(x) ==
    /\ Len(parameters_) < MaxAdds
    /\ parameters_' = Append(parameters_, x)
    /\ param_map_' = MapAssign(param_map_, Name(x), x)
    /\ cres' = [op |-> "Add", arg |-> x, result |-> << >>]
    /\ UNCHANGED <<cont, copied, frames, paramVars, policyVars>>

\* ---- std::shared_ptr<IParameter> ParameterContainer::Find(paramName) const
Find(n) ==
    /\ cres' = [op |-> "Find", arg |-> n, result |-> << param_map_[n] >>]
    /\ UNCHANGED <<cont, copied, frames, regVars, paramVars, policyVars>>

\* ---- void ParameterContainer::ForEach(func) const, func recording what
\* it is handed
ForEach ==
    /\ cres' = [op |-> "ForEach", arg |-> "-",
                result |-> [i \in 1..Len(parameters_) |-> parameters_[i]]]
    /\ UNCHANGED <<cont, copied, frames, regVars, paramVars, policyVars>>

(***************************************************************************)
(* Part 2: categories, the operation policy table and its unit rules.      *)
(***************************************************************************)

\* The category tags category<T> can produce, the base tags the policies are
\* written against, and void for the missing operand of a unary operation.
Categories == {"scalar_tag", "string_tag", "bool_tag", "eigen_quat_tag",
               "eigen_colvec_tag", "eigen_rowvec_tag", "eigen_mat_tag"}
VecMat == {"eigen_colvec_tag", "eigen_rowvec_tag", "eigen_mat_tag"}
Vec == {"eigen_colvec_tag", "eigen_rowvec_tag"}
BaseTags == {"eigen_vecmat_tag", "eigen_vec_tag"}
VoidTag == "void"

ArithOps == {"add_op", "sub_op", "mul_op", "div_op"}
LogicOps == {"and_op", "or_op", "xor_op", "xnor_op"}
UnaryOps == {"not_op", "transpose_op", "inverse_op"}
Ops == ArithOps \cup LogicOps \cup UnaryOps
          \cup {"coefw_mul_op", "coefw_div_op", "cross_op", "dot_op"}

\* Units: exponent vectors over the base dimensions metre and second.
\* largest exponent magnitude of an operand unit
MaxExp == 1
Units == [m : -MaxExp..MaxExp, s : -MaxExp..MaxExp]
one == [m |-> 0, s |-> 0]
\* Ux * Uy, Ux / Uy and 1 / Ux on unit references
UnitMul(ux, uy) == [m |-> ux.m + uy.m, s |-> ux.s + uy.s]
UnitDiv(ux, uy) == [m |-> ux.m - uy.m, s |-> ux.s - uy.s]
UnitInv(ux) == [m |-> 0 - ux.m, s |-> 0 - ux.s]

\* The pairs a policy written for a base tag is re-exported for by the derived
\* specialisations  op_policy<X, Y, Op> : public op_policy<base...> {}.
ScalarVecMat == {<<"scalar_tag", "eigen_vecmat_tag">>}
                   \cup { <<"scalar_tag", c>> : c \in VecMat }
VecMatScalar == {<<"eigen_vecmat_tag", "scalar_tag">>}
                   \cup { <<c, "scalar_tag">> : c \in VecMat }
SameVecMat == {<<"eigen_vecmat_tag", "eigen_vecmat_tag">>}
                 \cup { <<c, c>> : c \in VecMat }
SameVec == {<<"eigen_vec_tag", "eigen_vec_tag">>} \cup { <<c, c>> : c \in Vec }
UnaryVecMat == {<<"eigen_vecmat_tag", VoidTag>>} \cup { <<c, VoidTag>> : c \in VecMat }

\* The explicit specialisations of operation_policy.h, by operation, and the
\* form of the unit_of member each one has:
\*   "equal"          requires (Ux == Uy), returns Ux
\*   "product"        returns Ux * Uy
\*   "quotient"       returns Ux / Uy
\*   "equal_quotient" requires (Ux == Uy), returns Ux / Uy
\*   "unchanged"      unary, returns Ux
\*   "reciprocal"     unary, returns 1 / Ux
\*   "absent"         the specialisation has no unit_of member
PolicyEntries(op) ==
    CASE op \in {"add_op", "sub_op"} ->
           [ pr \in ({<<"scalar_tag", "scalar_tag">>} \cup ScalarVecMat
                      \cup VecMatScalar \cup SameVecMat
                      \cup {<<"eigen_quat_tag", "eigen_quat_tag">>}) |-> "equal" ]
           @@ (IF op = "add_op"
               THEN [ pr \in {<<"string_tag", "string_tag">>} |-> "absent" ]
               ELSE << >>)
      [] op = "mul_op" ->
           [ pr \in ({<<"scalar_tag", "scalar_tag">>} \cup ScalarVecMat
                      \cup VecMatScalar
                      \cup {<<"eigen_rowvec_tag", "eigen_colvec_tag">>,
                            <<"eigen_colvec_tag", "eigen_rowvec_tag">>,
                            <<"eigen_mat_tag", "eigen_mat_tag">>,
                            <<"eigen_mat_tag", "eigen_colvec_tag">>,
                            <<"eigen_rowvec_tag", "eigen_mat_tag">>,
                            <<"eigen_quat_tag", "eigen_quat_tag">>}) |-> "product" ]
      [] op = "div_op" ->
           [ pr \in ({<<"scalar_tag", "scalar_tag">>} \cup ScalarVecMat
                      \cup VecMatScalar
                      \cup {<<"eigen_rowvec_tag", "eigen_mat_tag">>,
                            <<"eigen_mat_tag", "eigen_mat_tag">>}) |-> "quotient" ]
           @@ [ pr \in {<<"eigen_quat_tag", "eigen_quat_tag">>} |-> "equal_quotient" ]
      [] op = "coefw_mul_op" -> [ pr \in SameVecMat |-> "product" ]
      [] op = "coefw_div_op" -> [ pr \in SameVecMat |-> "quotient" ]
      [] op = "cross_op" ->
           [ pr \in {<<"eigen_colvec_tag", "eigen_colvec_tag">>,
                     <<"eigen_rowvec_tag", "eigen_rowvec_tag">>} |-> "product" ]
      [] op = "dot_op" -> [ pr \in SameVec |-> "product" ]
      [] op \in LogicOps -> [ pr \in {<<"bool_tag", "bool_tag">>} |-> "absent" ]
      [] op = "not_op" -> [ pr \in {<<"bool_tag", VoidTag>>} |-> "absent" ]
      [] op = "transpose_op" -> [ pr \in UnaryVecMat |-> "unchanged" ]
      [] op = "inverse_op" -> [ pr \in {<<"eigen_mat_tag", VoidTag>>} |-> "reciprocal" ]

\* The explicit specialisations of the older primitive_operators_mul.h: only
\* mul_op, every unit_of of the "equal" form; eigen * scalar derives from
\* scalar * eigen.
MulHeaderEntries(op) ==
    IF op = "mul_op"
    THEN [ pr \in {<<"scalar_tag", "scalar_tag">>,
                   <<"scalar_tag", "eigen_vecmat_tag">>,
                   <<"eigen_vecmat_tag", "scalar_tag">>,
                   <<"eigen_quat_tag", "eigen_quat_tag">>} |-> "equal" ]
    ELSE << >>

\* The explicit specialisations of the older primitive_operators_add.h.
AddHeaderEntries(op) ==
    CASE op = "add_op" ->
           [ pr \in ({<<"scalar_tag", "scalar_tag">>} \cup ScalarVecMat
                      \cup VecMatScalar
                      \cup {<<"eigen_quat_tag", "eigen_quat_tag">>}) |-> "equal" ]
      [] op = "sub_op" ->
           [ pr \in {<<"scalar_tag", "scalar_tag">>,
                     <<"scalar_tag", "eigen_vecmat_tag">>,
                     <<"eigen_vecmat_tag", "scalar_tag">>,
                     <<"eigen_quat_tag", "eigen_quat_tag">>} |-> "equal" ]
      [] op = "mul_op" ->
           [ pr \in {<<"scalar_tag", "scalar_tag">>,
                     <<"scalar_tag", "eigen_vecmat_tag">>,
                     <<"eigen_vecmat_tag", "scalar_tag">>} |-> "product" ]
           @@ [ pr \in {<<"eigen_quat_tag", "eigen_quat_tag">>} |-> "equal" ]
      [] op = "div_op" ->
           [ pr \in ({<<"scalar_tag", "scalar_tag">>,
                      <<"scalar_tag", "eigen_vecmat_tag">>}
                      \cup VecMatScalar) |-> "quotient" ]
           @@ [ pr \in {<<"eigen_quat_tag", "eigen_quat_tag">>} |-> "equal_quotient" ]
      [] OTHER -> << >>

Tables == {"operation_policy", "primitive_operators_add", "primitive_operators_mul"}
EntriesOf(table, op) ==
    CASE table = "operation_policy" -> PolicyEntries(op)
      [] table = "primitive_operators_add" -> AddHeaderEntries(op)
      [] table = "primitive_operators_mul" -> MulHeaderEntries(op)

\* a primary template that enables every triple
PrimaryTemplate_Enabled == [enabled |-> TRUE, unit_rule |-> "absent"]

\* The primary template: template<class C1, class C2, class Op>
\* struct op_policy { static constexpr bool enabled = false; };
PrimaryTemplate == [enabled |-> FALSE, unit_rule |-> "absent"]

\* op_policy<C1, C2, Op>: the explicit specialisation when there is one, the
\* primary template otherwise.
op_policy(table, c1, c2, op) ==
    IF <<c1, c2>> \in DOMAIN EntriesOf(table, op)
    THEN [enabled |-> TRUE, unit_rule |-> EntriesOf(table, op)[<<c1, c2>>]]
    ELSE PrimaryTemplate

\* policy::unit_of<Ux, Uy>(): accepted with the result unit, or ill-formed
\* (constraint not satisfied, or no such member).
Accepted(u) == [ok |-> TRUE, unit |-> u]
IllFormed == [ok |-> FALSE, unit |-> one]

\* unit_of of the Add/Subtract entries without its requires (Ux == Uy)
unit_of_NoEqualCheck(rule, ux, uy) ==
    CASE rule = "equal" -> Accepted(ux)
      [] rule = "product" -> Accepted(UnitMul(ux, uy))
      [] rule = "quotient" -> Accepted(UnitDiv(ux, uy))
      [] rule = "equal_quotient" ->
           IF ux = uy THEN Accepted(UnitDiv(ux, uy)) ELSE IllFormed
      [] rule = "unchanged" -> Accepted(ux)
      [] rule = "reciprocal" -> Accepted(UnitInv(ux))
      [] rule = "absent" -> IllFormed

unit_of(rule, ux, uy) ==
    CASE rule = "equal" -> IF ux = uy THEN Accepted(ux) ELSE IllFormed
      [] rule = "product" -> Accepted(UnitMul(ux, uy))
      [] rule = "quotient" -> Accepted(UnitDiv(ux, uy))
      [] rule = "equal_quotient" ->
           IF ux = uy THEN Accepted(UnitDiv(ux, uy)) ELSE IllFormed
      [] rule = "unchanged" -> Accepted(ux)
      [] rule = "reciprocal" -> Accepted(UnitInv(ux))
      [] rule = "absent" -> IllFormed

\* op_allowed<Policy, U1, U2>: Policy::enabled; its defaulted argument
\* op_return_t<Policy, U1, U2> is what asks impl<U1, U2> to be well-formed.
op_allowed(policy) == policy.enabled

\* The requests of the model: a policy table, two category tags (the second
\* void for a unary operation), an operation and the operand units.
Requests ==
    [table : Tables, c1 : Categories \cup BaseTags,
     c2 : Categories \cup BaseTags \cup {VoidTag},
     op : Ops, ux : Units, uy : Units]

\* Looking a policy up and asking it for the result unit.
Lookup ==
    /\ request.op # "none" /\ resolution.op = "none"
    /\ LET policy == op_policy(request.table, request.c1, request.c2, request.op)
       IN  resolution' =
             [op |-> "lookup", enabled |-> policy.enabled,
              unit |-> unit_of(policy.unit_rule, request.ux, request.uy),
              computed |-> FALSE]
    /\ UNCHANGED <<request, paramVars, contVars, copied, frames, regVars>>

\* ParameterBase<T, Unit>::operator+ - * / at the type level: the requires
\* clause, then unit_of; impl runs only in a well-formed instantiation.
OperatorOf(op) ==
    CASE op = "add_op" -> "+" [] op = "sub_op" -> "-"
      [] op = "mul_op" -> "*" [] op = "div_op" -> "/"

ResolveOperator ==
    /\ request.op \in ArithOps /\ resolution.op = "none"
    /\ request.table = "operation_policy"
    /\ request.c1 \in Categories /\ request.c2 \in Categories
    /\ LET policy == op_policy(request.table, request.c1, request.c2, request.op)
           unit3 == unit_of(policy.unit_rule, request.ux, request.uy)
       IN  resolution' =
             [op |-> OperatorOf(request.op), enabled |-> op_allowed(policy),
              unit |-> IF op_allowed(policy) THEN unit3 ELSE IllFormed,
              computed |-> op_allowed(policy) /\ unit3.ok]
    /\ UNCHANGED <<request, paramVars, contVars, copied, frames, regVars>>

(***************************************************************************)
(* Part 3: the typed value container ParameterBase<T, Unit>.               *)
(***************************************************************************)

\* longest element sequence of a container
MaxLen == 2

\* The types list of each category tag, in the order category<T> tests them.
CategoryOrder == << "scalar_tag", "string_tag", "bool_tag", "eigen_quat_tag",
                    "eigen_colvec_tag", "eigen_rowvec_tag", "eigen_mat_tag" >>

\* type lists in which scalar_tag also lists bool
TypesOf_BoolAmongScalars(tag) ==
    CASE tag = "scalar_tag" -> {"int", "double", "bool"}
      [] tag = "string_tag" -> {"string"}
      [] tag = "bool_tag" -> {"bool"}
      [] tag = "eigen_quat_tag" -> {"Quaterniond"}
      [] tag = "eigen_colvec_tag" -> {"Vector3d"}
      [] tag = "eigen_rowvec_tag" -> {"RowVector3d"}
      [] tag = "eigen_mat_tag" -> {"Matrix3d"}

TypesOf(tag) ==
    CASE tag = "scalar_tag" -> {"int", "double"}
      [] tag = "string_tag" -> {"string"}
      [] tag = "bool_tag" -> {"bool"}
      [] tag = "eigen_quat_tag" -> {"Quaterniond"}
      [] tag = "eigen_colvec_tag" -> {"Vector3d"}
      [] tag = "eigen_rowvec_tag" -> {"RowVector3d"}
      [] tag = "eigen_mat_tag" -> {"Matrix3d"}

is_category_of(T, tag) == T \in TypesOf(tag)

\* category<T>::type: the first tag of the conditional chain whose list holds
\* T, void (rejected by the static_assert) when none does.
RECURSIVE categoryFrom(_, _)
categoryFrom(T, i) ==
    IF i > Len(CategoryOrder) THEN VoidTag
    ELSE IF is_category_of(T, CategoryOrder[i]) THEN CategoryOrder[i]
    ELSE categoryFrom(T, i + 1)

category(T) == categoryFrom(T, 1)

\* primitive_types, and types outside it that a caller may hand to category.
PrimitiveTypes == {"bool", "string", "int", "double",
                   "Vector3d", "RowVector3d", "Matrix3d", "Quaterniond"}
UnsupportedTypes == {"float", "const_char_ptr", "Vector2d"}
AllTypes == PrimitiveTypes \cup UnsupportedTypes
StaticError == "static_assert"
Ambiguous == "ambiguous"

\* What the partial specialisations of the older category<T, void> test:
\* std::is_convertible_v<T, std::string>, the presence of RowsAtCompileTime
\* and ColsAtCompileTime with their values, and std::is_same_v<T, Quaterniond>.
is_convertible_to_string(T) == T \in {"string", "const_char_ptr"}
HasRowsCols(T) == T \in {"Vector3d", "RowVector3d", "Matrix3d", "Vector2d"}
RowsAtCompileTime(T) == IF T = "RowVector3d" THEN 1 ELSE IF T = "Vector2d" THEN 2 ELSE 3
ColsAtCompileTime(T) == IF T \in {"Vector3d", "Vector2d"} THEN 1 ELSE 3

\* primary template of primitive_operators.h:  using type = scalar_tag;
ScalarFallback == "scalar_tag"

\* ---- category<T, void> of primitive_operators.h: the explicit specialisation
\* for bool, else the partial specialisation whose condition holds (two that
\* hold are ambiguous), else the primary template.
category_sfinae(T) ==
    LET matching ==
          (IF is_convertible_to_string(T) THEN {"string_tag"} ELSE {})
            \cup (IF HasRowsCols(T)
                  THEN {IF RowsAtCompileTime(T) = 1 THEN "eigen_rowvec_tag"
                        ELSE IF ColsAtCompileTime(T) = 1 THEN "eigen_colvec_tag"
                        ELSE "eigen_mat_tag"}
                  ELSE {})
            \cup (IF T = "Quaterniond" THEN {"eigen_quat_tag"} ELSE {})
    IN  IF T = "bool" THEN "bool_tag"
        ELSE IF matching = {} THEN ScalarFallback
        ELSE IF Cardinality(matching) = 1 THEN CHOOSE c \in matching : TRUE
        ELSE Ambiguous

\* category_t<T> as each header defines it; the static_assert of
\* primitive_operators1.h rejects a type that no list holds.
Headers == {"primitive_operators1", "primitive_operators"}
category_t(h, T) ==
    IF h = "primitive_operators1"
    THEN (IF category(T) = VoidTag THEN StaticError ELSE category(T))
    ELSE category_sfinae(T)

\* Classifying the value types of two operands.
Classify ==
    /\ request.op = "classify" /\ resolution.op = "none"
    /\ resolution' = [op |-> "classify",
                      c1 |-> category_t(request.header, request.T1),
                      c2 |-> category_t(request.header, request.T2)]
    /\ UNCHANGED <<request, paramVars, contVars, copied, frames, regVars>>

\* ---- The computations of the policy entries: impl<U1, U2>.

\* the classes a tag derives from (struct X : public Y), transitively
BaseClasses(tag) ==
    CASE tag = "eigen_vec_tag" -> {"eigen_vecmat_tag"}
      [] tag \in {"eigen_colvec_tag", "eigen_rowvec_tag"} ->
           {"eigen_vec_tag", "eigen_vecmat_tag"}
      [] OTHER -> {}

\* std::is_base_of_v<Base, Derived> on the tag classes
is_base_of(base, derived) == base = derived \/ base \in BaseClasses(derived)

\* std::common_type_t<U1, U2> of the scalar types
common_type(T1, T2) == IF T1 = "int" /\ T2 = "int" THEN "int" ELSE "double"

\* The fixed-size Eigen class of a shape (first, with rows and columns
\* exchanged), and the class .array() ... .eval() yields for a matrix class.
MatrixType_Swapped(rows, cols) ==
    CASE rows = 3 /\ cols = 3 -> "Matrix3d"
      [] rows = 1 /\ cols = 3 -> "Vector3d"
      [] rows = 3 /\ cols = 1 -> "RowVector3d"
      [] OTHER -> "Matrix"
MatrixType(rows, cols) ==
    CASE rows = 3 /\ cols = 3 -> "Matrix3d"
      [] rows = 3 /\ cols = 1 -> "Vector3d"
      [] rows = 1 /\ cols = 3 -> "RowVector3d"
      [] OTHER -> "Matrix"
ArrayType(T) ==
    CASE T = "Vector3d" -> "Array3d"
      [] T = "RowVector3d" -> "Array<double,1,3>"
      [] T = "Matrix3d" -> "Array33d"
ShapeOf(T) ==
    CASE T \in {"Vector3d", "Array3d"} -> <<3, 1>>
      [] T \in {"RowVector3d", "Array<double,1,3>"} -> <<1, 3>>
      [] T \in {"Matrix3d", "Array33d"} -> <<3, 3>>
      [] OTHER -> <<1, 1>>

\* Which impl the specialisation for a pair has, its own or the one of the
\* base it derives from:
\*   "scalar_scalar"  impl(s1, s2)
\*   "scalar_vecmat"  impl(s, vm), elementwise
\*   "vecmat_scalar"  impl(vm, s), elementwise
\*   "same_vecmat"    impl(vm1, vm2), elementwise
\*   "product"        impl(a, b), the matrix product a * b (a * b.inverse())
\*   "quat_quat", "string_string", "bool_bool", "other"
ImplOf(table, c1, c2, op) ==
    CASE <<c1, c2>> = <<"scalar_tag", "scalar_tag">> -> "scalar_scalar"
      [] <<c1, c2>> \in ScalarVecMat -> "scalar_vecmat"
      [] <<c1, c2>> \in VecMatScalar ->
           IF \/ table = "primitive_operators_mul"
              \/ table = "primitive_operators_add" /\ op \in {"sub_op", "mul_op"}
           THEN "scalar_vecmat"
           ELSE "vecmat_scalar"
      [] <<c1, c2>> = <<"eigen_quat_tag", "eigen_quat_tag">> -> "quat_quat"
      [] <<c1, c2>> = <<"string_tag", "string_tag">> -> "string_string"
      [] c1 = "bool_tag" -> "bool_bool"
      [] op \in {"mul_op", "div_op"} -> "product"
      [] op \in {"add_op", "sub_op", "coefw_mul_op", "coefw_div_op"} -> "same_vecmat"
      [] OTHER -> "other"

\* The requires clause of impl<U1, U2> in the specialisation for <c1, c2>.
ImplRequires(form, c1, c2, T1, T2) ==
    CASE form = "scalar_scalar" ->
           is_category_of(T1, "scalar_tag") /\ is_category_of(T2, "scalar_tag")
      [] form = "scalar_vecmat" ->
           is_category_of(T1, "scalar_tag") /\ is_base_of("eigen_vecmat_tag", category(T2))
      [] form = "vecmat_scalar" ->
           is_base_of("eigen_vecmat_tag", category(T1)) /\ is_category_of(T2, "scalar_tag")
      [] form = "same_vecmat" ->
           /\ is_base_of("eigen_vecmat_tag", category(T1))
           /\ is_base_of("eigen_vecmat_tag", category(T2))
           /\ T1 = T2
      [] form = "product" ->
           /\ is_category_of(T1, c1) /\ is_category_of(T2, c2)
           /\ IF <<c1, c2>> = <<"eigen_colvec_tag", "eigen_rowvec_tag">>
              THEN RowsAtCompileTime(T1) = ColsAtCompileTime(T2)
              ELSE ColsAtCompileTime(T1) = RowsAtCompileTime(T2)
      [] form = "quat_quat" ->
           is_category_of(T1, "eigen_quat_tag") /\ is_category_of(T2, "eigen_quat_tag")
      [] form = "string_string" -> T1 = "string" /\ T2 = "string"
      [] form = "bool_bool" -> T1 = "bool" /\ T2 = "bool"
      [] OTHER -> FALSE

\* The declared return type of impl<U1, U2>, or the type of the returned
\* expression when it is declared auto.  Row vector times column vector is
\* declared double; scalar division is declared double, as is the scalar
\* product of primitive_operators_mul.h.
ImplReturn(table, form, op, T1, T2) ==
    CASE form = "scalar_scalar" ->
           IF op = "div_op" \/ table = "primitive_operators_mul"
           THEN "double"
           ELSE common_type(T1, T2)
      [] form = "scalar_vecmat" -> T2
      [] form = "vecmat_scalar" -> T1
      [] form = "same_vecmat" -> ArrayType(T1)
      [] form = "product" ->
           IF RowsAtCompileTime(T1) = 1 /\ ColsAtCompileTime(T2) = 1 /\ op = "mul_op"
           THEN "double"
           ELSE MatrixType(RowsAtCompileTime(T1), ColsAtCompileTime(T2))
      [] form = "quat_quat" -> "Quaterniond"
      [] form = "string_string" -> "string"
      [] form = "bool_bool" -> "bool"

\* Numbers: num / den in lowest terms with den >= 0; den = 0 is an infinity
\* (num = 1 or -1) or NaN (num = 0).  A payload n of a scalar is the number n,
\* of an Eigen value the matrix whose every coefficient is n.
RECURSIVE GCD(_, _)
GCD(m, n) == IF n = 0 THEN m ELSE GCD(n, m % n)
Abs(n) == IF n < 0 THEN 0 - n ELSE n
Sign(n) == IF n < 0 THEN 0 - 1 ELSE IF n > 0 THEN 1 ELSE 0
Number(n) == [num |-> n, den |-> 1]
Quotient(a, b) ==
    IF b = 0 THEN [num |-> Sign(a), den |-> 0]
    ELSE [num |-> Sign(b) * (a \div GCD(Abs(a), Abs(b))),
          den |-> Abs(b) \div GCD(Abs(a), Abs(b))]

\* x op y on doubles, the operands in the order the expression has them
Arith(op, x, y) ==
    CASE op = "add_op" -> Number(x + y)
      [] op = "sub_op" -> Number(x - y)
      [] op \in {"mul_op", "coefw_mul_op"} -> Number(x * y)
      [] op \in {"div_op", "coefw_div_op"} -> Quotient(x, y)

\* a computation kept as the application it performs
Applied(op, a, b) == [num |-> <<op, a, b>>, den |-> 1]

\* The value the body of impl returns: per coefficient for the elementwise
\* forms, the sum over the inner dimension for a matrix product.
ImplValue(form, op, T1, T2, a, b) ==
    CASE form \in {"scalar_scalar", "scalar_vecmat", "vecmat_scalar", "same_vecmat"} ->
           Arith(op, a, b)
      [] form = "product" /\ op = "mul_op" -> Number(ColsAtCompileTime(T1) * a * b)
      [] form = "quat_quat" /\ op \in {"add_op", "sub_op"} -> Arith(op, a, b)
      [] OTHER -> Applied(op, a, b)

NotCallable == Threw("constraints not satisfied")

\* ---- op_policy<c1, c2, Op>::impl<U1, U2>(a, b)
impl(table, c1, c2, op, T1, T2, a, b) ==
    LET form == ImplOf(table, c1, c2, op)
    IN  IF ImplRequires(form, c1, c2, T1, T2)
        THEN Returned([type |-> ImplReturn(table, form, op, T1, T2),
                       val |-> ImplValue(form, op, T1, T2, a, b)])
        ELSE NotCallable

\* ---- op_return_t<Policy, U1, U2>: decltype of the call, the static_assert
\* of the primary op_return_type when the call is not well-formed
op_return_t(table, c1, c2, op, T1, T2) ==
    LET form == ImplOf(table, c1, c2, op)
    IN  IF op_policy(table, c1, c2, op).enabled /\ ImplRequires(form, c1, c2, T1, T2)
        THEN ImplReturn(table, form, op, T1, T2)
        ELSE StaticError

\* A direct call of a policy's impl: the policy is named by the category of
\* each operand type or by a base of it.
TagsFor(T) == {category(T)} \cup BaseClasses(category(T))
ImplOps == ArithOps \cup {"coefw_mul_op", "coefw_div_op"}
ImplCalls ==
    { r \in [op : {"impl"}, table : Tables, opn : ImplOps,
             c1 : Categories \cup BaseTags, c2 : Categories \cup BaseTags,
             T1 : PrimitiveTypes, T2 : PrimitiveTypes,
             a : 0..MaxPayload, b : 0..MaxPayload] :
        r.c1 \in TagsFor(r.T1) /\ r.c2 \in TagsFor(r.T2) }

\* OperationPolicy<scalar_tag>::plus_vec, minus_vec, multiply_vec, divide_vec
\* (and _mat) of primitive_operators.h: the functor each alias hands to
\* binary_op<T, V, V, Op>.
ScalarPolicyFunctor(op) ==
    CASE op = "add_op" -> "eigen_plus_scalar"
      [] op = "sub_op" -> "eigen_minus_scalar"
      [] op = "mul_op" -> "eigen_plus_scalar"
      [] op = "div_op" -> "eigen_divide_scalar"

\* Op{}(s, v), the overloads taking the scalar first
ScalarFunctorValue(f, s, v) ==
    CASE f = "eigen_plus_scalar" -> Arith("add_op", v, s)
      [] f = "eigen_minus_scalar" -> Arith("sub_op", s, v)
      [] f = "eigen_divide_scalar" -> Arith("div_op", s, v)

ScalarPolicyCalls ==
    [op : {"functor"}, opn : ArithOps, T1 : {"int", "double"},
     T2 : {"Vector3d", "Matrix3d"}, a : 0..MaxPayload, b : 0..MaxPayload]

\* ---- OperationPolicy<scalar_tag>::<op>_vec<T>{}(s, v): binary_op::operator()
CallScalarPolicy ==
    /\ request.op = "functor" /\ resolution.op = "none"
    /\ resolution' =
         [op |-> "functor", enabled |-> TRUE,
          res |-> Returned([type |-> request.T2,
                            val |-> ScalarFunctorValue(ScalarPolicyFunctor(request.opn),
                                                       request.a, request.b)])]
    /\ UNCHANGED <<request, paramVars, contVars, copied, frames, regVars>>

CallImpl ==
    /\ request.op = "impl" /\ resolution.op = "none"
    /\ LET policy == op_policy(request.table, request.c1, request.c2, request.opn)
       IN  resolution' =
             [op |-> "impl", enabled |-> policy.enabled,
              res |-> IF policy.enabled
                      THEN impl(request.table, request.c1, request.c2, request.opn,
                                request.T1, request.T2, request.a, request.b)
                      ELSE NotCallable]
    /\ UNCHANGED <<request, paramVars, contVars, copied, frames, regVars>>

\* The element types and units of the containers of the model.
ElemTypes == {"int", "bool", "Vector3d"}
ContUnits == { [m |-> 1, s |-> 0], [m |-> 0, s |-> 1] }
Elems == 0..MaxPayload
Conts == {"lhs", "rhs"}

\* All element sequences of length at most n.
SeqsUpTo(n) == UNION { [1..k -> Elems] : k \in 0..n }

\* a T{} that is one for the arithmetic types
DefaultOutcomes_One(T) ==
    IF T \in {"int", "double", "bool"} THEN {1} ELSE Elems
\* T{}: zero for the arithmetic types and bool; Eigen's fixed-size default
\* constructor leaves the coefficients uninitialised, so any value.
DefaultOutcomes(T) ==
    IF T \in {"int", "double", "bool"} THEN {0} ELSE Elems

\* a Val() that returns the last element
ValOutcomes_Last(c) ==
    IF c.value_ = << >> THEN DefaultOutcomes(c.T) ELSE {c.value_[Len(c.value_)]}

\* ---- T ParameterBase::Val() const noexcept: value_.empty() ? T{} : value_[0]
ValOutcomes(c) ==
    IF c.value_ = << >> THEN DefaultOutcomes(c.T) ELSE {c.value_[1]}

\* element access that clamps the index to the last element instead of throwing
vector_at_Clamped(seq, i) ==
    IF i < Len(seq) THEN Returned(seq[i + 1])
    ELSE IF seq # << >> THEN Returned(seq[Len(seq)])
    ELSE Threw("out_of_range")

\* ---- std::vector<T>::at(i): the zero-based element, or std::out_of_range
vector_at(seq, i) ==
    IF i < Len(seq) THEN Returned(seq[i + 1]) ELSE Threw("out_of_range")

NoCres(o) == [op |-> o, c |-> "-", i |-> 0, arg |-> 0, status |-> "ok",
              value |-> << >>, T |-> "-", unit |-> one, before |-> << >>,
              operands |-> << >>]

\* ---- operator[](size_t i) const, read:  x = c[i]
IndexGet(c, i) ==
    /\ cres' = [NoCres("index_get") EXCEPT
                  !.c = c, !.i = i, !.before = cont[c].value_,
                  !.status = vector_at(cont[c].value_, i).status,
                  !.value = IF vector_at(cont[c].value_, i).status = "ok"
                            THEN << vector_at(cont[c].value_, i).val >>
                            ELSE << >>]
    /\ UNCHANGED <<cont, paramVars, policyVars, copied, frames, regVars>>

\* ---- operator[](size_t i), write:  c[i] = v
IndexSet(c, i, v) ==
    /\ cont' = IF vector_at(cont[c].value_, i).status = "ok"
               THEN [cont EXCEPT ![c].value_[i + 1] = v]
               ELSE cont
    /\ cres' = [NoCres("index_set") EXCEPT
                  !.c = c, !.i = i, !.arg = v, !.before = cont[c].value_,
                  !.status = vector_at(cont[c].value_, i).status]
    /\ copied' = IF vector_at(cont[c].value_, i).status = "ok"
                 THEN [copied EXCEPT !.cont = Wrote(@, c)]
                 ELSE copied
    /\ UNCHANGED <<frames, regVars, paramVars, policyVars>>

\* ---- void Set(const T& v): resize(1) when empty, then value_[0] = v
SetOne(c, v) ==
    /\ cont' = [cont EXCEPT ![c].value_ =
                  IF @ = << >> THEN << v >> ELSE [@ EXCEPT ![1] = v]]
    /\ cres' = [NoCres("set") EXCEPT !.c = c, !.arg = v,
                  !.before = cont[c].value_]
    /\ copied' = [copied EXCEPT !.cont = Wrote(@, c)]
    /\ UNCHANGED <<frames, regVars, paramVars, policyVars>>

\* ---- void Set(const std::vector<T>& values)
SetAll(c, seq) ==
    /\ cont' = [cont EXCEPT ![c].value_ = seq]
    /\ cres' = [NoCres("set_all") EXCEPT !.c = c, !.value = seq,
                  !.before = cont[c].value_]
    /\ copied' = [copied EXCEPT !.cont = Wrote(@, c)]
    /\ UNCHANGED <<frames, regVars, paramVars, policyVars>>

\* ---- T Val() const noexcept, read:  x = c.Val()
ReadVal(c) ==
    /\ \E x \in ValOutcomes(cont[c]) :
         cres' = [NoCres("Val") EXCEPT !.c = c, !.value = << x >>,
                    !.T = cont[c].T, !.before = cont[c].value_]
    /\ UNCHANGED <<cont, paramVars, policyVars, copied, frames, regVars>>

\* ---- std::vector<T> Vals() const noexcept  { return value_; }
ReadVals(c) ==
    /\ cres' = [NoCres("Vals") EXCEPT !.c = c, !.value = cont[c].value_,
                  !.T = cont[c].T, !.before = cont[c].value_]
    /\ UNCHANGED <<cont, paramVars, policyVars, copied, frames, regVars>>

\* ---- std::size_t Size() const noexcept  { return value_.size(); }
ReadSize(c) ==
    /\ cres' = [NoCres("Size") EXCEPT !.c = c, !.arg = Len(cont[c].value_),
                  !.T = cont[c].T, !.before = cont[c].value_]
    /\ UNCHANGED <<cont, paramVars, policyVars, copied, frames, regVars>>

\* Text is a sequence of characters.  A payload n of a text element is the
\* text of n letters, so payload 0 is the empty text.
TextOf(n) == [i \in 1..n |-> "a"]
DigitChar(d) == << "0", "1", "2", "3", "4", "5", "6", "7", "8", "9" >>[d + 1]
RECURSIVE Digits(_)
Digits(n) == IF n < 10 THEN << DigitChar(n) >>
             ELSE Digits(n \div 10) \o << DigitChar(n % 10) >>

\* oss << value_[i] without std::boolalpha
StreamOut_NoBoolalpha(T, n) ==
    CASE T = "string" -> TextOf(n)
      [] OTHER -> Digits(n)

\* oss << value_[i] for the element types the model renders, after
\* oss << std::boolalpha
StreamOut(T, n) ==
    CASE T = "bool" -> IF n = 0 THEN << "f", "a", "l", "s", "e" >>
                       ELSE << "t", "r", "u", "e" >>
      [] T = "string" -> TextOf(n)
      [] OTHER -> Digits(n)

\* the loop of ValueAsString over value_[from..], ", " before all but the
\* first element
RECURSIVE StreamList(_, _, _)
StreamList(T, seq, i) ==
    IF i > Len(seq) THEN << >>
    ELSE (IF i > 1 THEN << ",", " " >> ELSE << >>)
           \o StreamOut(T, seq[i]) \o StreamList(T, seq, i + 1)

\* ---- std::string ParameterBase::ValueAsString() const
ValueAsString(c) ==
    IF Len(c.value_) = 1 THEN StreamOut(c.T, c.value_[1])
    ELSE << "[" >> \o StreamList(c.T, c.value_, 1) \o << "]" >>

\* s = c.ValueAsString()
Render(c) ==
    /\ cres' = [NoCres("ValueAsString") EXCEPT !.c = c,
                  !.value = ValueAsString(cont[c]),
                  !.T = cont[c].T, !.before = cont[c].value_]
    /\ UNCHANGED <<cont, paramVars, policyVars, copied, frames, regVars>>

\* ---- Derived& Parameter::operator=(const T& rhs): resize(1) when empty,
\* then value_[0] = rhs
AssignOne(c, v) ==
    /\ cont' = [cont EXCEPT ![c].value_ =
                  IF @ = << >> THEN << v >> ELSE [@ EXCEPT ![1] = v]]
    /\ cres' = [NoCres("assign") EXCEPT !.c = c, !.arg = v,
                  !.before = cont[c].value_]
    /\ copied' = [copied EXCEPT !.cont = Wrote(@, c)]
    /\ UNCHANGED <<frames, regVars, paramVars, policyVars>>

\* ---- c = v on a class that inherits only the constructors: its implicit
\* copy/move assignment hides operator=(const T&), so v is converted by
\* ParameterBase(const T&) and the temporary is move-assigned
AssignConverted(c, v) ==
    /\ cont' = [cont EXCEPT ![c].value_ = << v >>]
    /\ cres' = [NoCres("assign_converted") EXCEPT !.c = c, !.arg = v,
                  !.before = cont[c].value_]
    /\ copied' = [copied EXCEPT !.cont = Wrote(@, c)]
    /\ UNCHANGED <<frames, regVars, paramVars, policyVars>>

\* ---- ParameterBase(const ParameterBase&) = default: dst constructed from
\* src, of src's type and unit, with a copy of its elements
ContCopyConstruct(dst, src) ==
    /\ dst # src
    /\ cont' = CopyFrom(cont, dst, src)
    /\ cres' = [NoCres("copy_construct") EXCEPT !.c = dst, !.before = cont[src].value_]
    /\ copied' = [copied EXCEPT !.cont = Copied(dst, src, cont[src].value_)]
    /\ UNCHANGED <<frames, regVars, paramVars, policyVars>>

\* ---- ParameterBase& operator=(const ParameterBase&) = default: dst = src,
\* between containers of the same element type and unit
ContCopyAssign(dst, src) ==
    /\ cont[dst].T = cont[src].T /\ cont[dst].unit = cont[src].unit
    /\ cont' = CopyFrom(cont, dst, src)
    /\ cres' = [NoCres("copy_assign") EXCEPT !.c = dst, !.before = cont[src].value_]
    /\ copied' = IF dst # src
                 THEN [copied EXCEPT !.cont = Copied(dst, src, cont[src].value_)]
                 ELSE copied
    /\ UNCHANGED <<frames, regVars, paramVars, policyVars>>

\* ---- bool ParameterBase::operator==(const ParameterBase<T2, Unit2>&) const:
\* false when the units differ, the element vectors compared otherwise
ContEquals(a, b) == IF a.unit = b.unit THEN a.value_ = b.value_ ELSE FALSE

\* op(a, b) of the functor handed to elementWiseBinaryOp, kept as the
\* application it performs.
invoke(op, a, b) == <<op, a, b>>

\* ---- ParameterBase::operator+ - * / (const ParameterBase<T2, Unit2>& rhs):
\* ill-formed unless op_allowed, op_return_t and unit_of accept; otherwise a
\* ParameterBase<T3, Unit3> of the one element impl(Val(), rhs.Val()), with
\* T3 = op_return_t and Unit3 = unit_of<Unit, Unit2>().
BinaryOperator(op) ==
    LET c1 == category(cont["lhs"].T)
        c2 == category(cont["rhs"].T)
        policy == op_policy("operation_policy", c1, c2, op)
        T3 == op_return_t("operation_policy", c1, c2, op,
                          cont["lhs"].T, cont["rhs"].T)
        unit3 == unit_of(policy.unit_rule, cont["lhs"].unit, cont["rhs"].unit)
    IN  /\ op \in ArithOps
        /\ IF op_allowed(policy) /\ T3 # StaticError /\ unit3.ok
           THEN \E a \in ValOutcomes(cont["lhs"]) : \E b \in ValOutcomes(cont["rhs"]) :
                  LET r == impl("operation_policy", c1, c2, op,
                                cont["lhs"].T, cont["rhs"].T, a, b)
                  IN  cres' = [NoCres(OperatorOf(op)) EXCEPT
                                 !.value = << r.val.val >>, !.T = T3,
                                 !.unit = unit3.unit,
                                 !.operands = << cont["lhs"], cont["rhs"] >>]
           ELSE cres' = [NoCres(OperatorOf(op)) EXCEPT
                           !.status = "ill_formed",
                           !.operands = << cont["lhs"], cont["rhs"] >>]
        /\ UNCHANGED <<cont, paramVars, policyVars, copied, frames, regVars>>

\* an elementwise operation that hands the operands to op in the order
\* (many, single) whichever side the single one is on
elementWise_SingleLast(op, l, r) ==
    IF l = << >> \/ r = << >> THEN Threw("runtime_error: empty parameter values")
    ELSE IF Len(l) > 1 /\ Len(r) > 1 /\ Len(l) # Len(r)
    THEN Threw("runtime_error: size mismatch")
    ELSE IF Len(l) = 1 /\ Len(r) > 1
    THEN Returned([i \in 1..Len(r) |-> invoke(op, r[i], l[1])])
    ELSE IF Len(l) > 1 /\ Len(r) = 1
    THEN Returned([i \in 1..Len(l) |-> invoke(op, l[i], r[1])])
    ELSE Returned([i \in 1..Len(l) |-> invoke(op, l[i], r[i])])

\* ---- elementWiseBinaryOp<R, D1, D2, Op>(lhs, rhs, op) of parameter_defs.h:
\* constrained to one value type and one unit; a single element is applied
\* against every element of the other side.
elementWise(op, l, r) ==
    IF l = << >> \/ r = << >> THEN Threw("runtime_error: empty parameter values")
    ELSE IF Len(l) > 1 /\ Len(r) > 1 /\ Len(l) # Len(r)
    THEN Threw("runtime_error: size mismatch")
    ELSE IF Len(l) = 1 /\ Len(r) > 1
    THEN Returned([i \in 1..Len(r) |-> invoke(op, l[1], r[i])])
    ELSE IF Len(l) > 1 /\ Len(r) = 1
    THEN Returned([i \in 1..Len(l) |-> invoke(op, l[i], r[1])])
    ELSE IF Len(l) = Len(r)
    THEN Returned([i \in 1..Len(l) |-> invoke(op, l[i], r[i])])
    ELSE Threw("runtime_error: unexpected vector size")

ElementWiseBinaryOp(op) ==
    /\ op \in ArithOps
    /\ cont["lhs"].T = cont["rhs"].T /\ cont["lhs"].unit = cont["rhs"].unit
    /\ LET r == elementWise(op, cont["lhs"].value_, cont["rhs"].value_)
       IN  cres' = [NoCres("elementWiseBinaryOp") EXCEPT
                      !.status = r.status,
                      !.value = IF r.status = "ok" THEN r.val ELSE << >>,
                      !.unit = cont["lhs"].unit]
    /\ UNCHANGED <<cont, paramVars, policyVars, copied, frames, regVars>>

\* ---- The constructors: Parameter(), Parameter(T a), Parameter(const ParameterValue&)
Constructed(form, v) ==
    CASE form = "default" -> [value |-> DefaultValue, index |-> 0]
      [] form = "fromT" -> [value |-> v, index |-> variant_index_of(v.kind)]
      [] form = "fromVariant" -> [value |-> v, index |-> 0]

CtorForms == {"default", "fromT", "fromVariant"}
CtorValues == { PrimValue(k, MaxPayload) : k \in {"int", "double"} }

InitParam ==
    /\ frames = << >>
    /\ parameters_ = << >>
    /\ param_map_ = [n \in Names |-> NULL]
    /\ \E f \in [Objs -> CtorForms] : \E v \in [Objs -> CtorValues] :
          /\ value_ = [p \in Objs |-> Constructed(f[p], v[p]).value]
          /\ type_index_ = [p \in Objs |-> Constructed(f[p], v[p]).index]
          /\ stored = [p \in Objs |-> Constructed(f[p], v[p]).value]
    /\ observers_ = [p \in Objs |-> << >>]
    /\ handlers_ = [p \in Objs |-> [t \in Types |-> NoHandler]]
    /\ last = [op |-> "init", obj |-> "-", T |-> "-", res |-> Void]
    /\ calls = << >>

InitPolicy ==
    /\ request = [op |-> "none"]
    /\ resolution = [op |-> "none"]

\* ParameterBase(): no element.  The containers that take no part.
InitCont ==
    /\ cont = [c \in Conts |-> [T |-> "int", unit |-> one, value_ |-> << >>]]
    /\ cres = NoCres("init")
    /\ copied = [param |-> NoCopy, cont |-> NoCopy]

\* ParameterBase(), ParameterBase(const T&), ParameterBase(const std::vector<T>&)
\* for containers of every element type and unit of the model.
InitContainers ==
    /\ cont \in [Conts -> [T : ElemTypes, unit : ContUnits, value_ : SeqsUpTo(MaxLen)]]
    /\ cres = NoCres("init")
    /\ copied = [param |-> NoCopy, cont |-> NoCopy]

Init == InitParam /\ InitPolicy /\ InitCont

\* Every Parameter default-constructed.
InitDefaultParam ==
    /\ frames = << >>
    /\ parameters_ = << >>
    /\ param_map_ = [n \in Names |-> NULL]
    /\ value_ = [p \in Objs |-> Constructed("default", DefaultValue).value]
    /\ type_index_ = [p \in Objs |-> Constructed("default", DefaultValue).index]
    /\ stored = [p \in Objs |-> Constructed("default", DefaultValue).value]
    /\ observers_ = [p \in Objs |-> << >>]
    /\ handlers_ = [p \in Objs |-> [t \in Types |-> NoHandler]]
    /\ last = [op |-> "init", obj |-> "-", T |-> "-", res |-> Void]
    /\ calls = << >>

\* Reading and replacing the value of a Parameter without observers.
NextValue ==
    \/ \E p \in Objs : \E v \in VariantValues : SetValue(p, v)
    \/ \E p \in Objs : \E v \in VariantValues : Assign(p, v)
    \/ \E p \in Objs : \E e \in Enumerators : SetEnum(p, e)
    \/ \E p \in Objs : \E E \in EnumTypes : GetEnum(p, E)
    \/ \E p \in Objs : \E T \in ExtractKinds : Extract(p, T)

SpecValue == Init /\ [][NextValue]_vars

\* Observers, handlers and the mutations that notify them.
NextNotify ==
    \/ \E p \in Objs : \E v \in NotifyValues : SetValue(p, v)
    \/ \E p \in Objs : \E v \in NotifyValues : Assign(p, v)
    \/ \E p \in Objs : \E e \in NotifyEnumerators : SetEnum(p, e)
    \/ \E p \in Notifiers : \E o \in Objs \cup {NULL} : AddObserver(p, o)
    \/ \E p \in Notifiers : \E o \in Objs \cup {NULL} : RemoveObserver(p, o)
    \/ \E p \in Objs : \E T \in Types : \E h \in NotifyHandlerIds :
          SetNotificationHandler(p, T, h)
    \/ \E p \in Objs : NotifyObservers(p)

InitNotify == InitDefaultParam /\ InitPolicy /\ InitCont

SpecNotify == InitNotify /\ [][NextNotify]_vars

\* Comparing Parameters that hold any value, with and without observers and
\* handlers.
NextEqual ==
    \/ \E p \in Objs : \E v \in CompareValues : SetValue(p, v)
    \/ \E p \in Objs : \E q \in Objs : Compare(p, q)
    \/ \E p \in Objs : AddObserver(p, "tr")
    \/ \E o \in Objs : SetNotificationHandler(o, "TE", "h1")

InitEqual == InitDefaultParam /\ InitPolicy /\ InitCont

SpecEqual == InitEqual /\ [][NextEqual]_vars

\* Copies followed by writes: either the Parameters are copied and written
\* while the containers stay as constructed, or the containers are while the
\* Parameters stay as constructed.
CopyValues == NotifyValues \cup { EnumHolder(e.ord, e.etype) : e \in NotifyEnumerators }
ParametersOnly == cres.op = "init"
ContainersOnly == last.op = "init"

NextCopy ==
    \/ \E p \in Objs : \E v \in CopyValues : ParametersOnly /\ SetValue(p, v)
    \/ \E p \in Objs : \E v \in NotifyValues : ParametersOnly /\ Assign(p, v)
    \/ \E p \in Objs : \E e \in NotifyEnumerators : ParametersOnly /\ SetEnum(p, e)
    \/ \E p \in Objs : \E q \in Objs : ParametersOnly /\ CopyConstruct(p, q)
    \/ \E p \in Objs : \E q \in Objs : ParametersOnly /\ CopyAssign(p, q)
    \/ \E c \in Conts : \E i \in 0..MaxLen : \E v \in Elems :
          ContainersOnly /\ IndexSet(c, i, v)
    \/ \E c \in Conts : \E v \in Elems : ContainersOnly /\ SetOne(c, v)
    \/ \E c \in Conts : \E seq \in SeqsUpTo(MaxLen) : ContainersOnly /\ SetAll(c, seq)
    \/ \E c \in Conts : \E d \in Conts : ContainersOnly /\ ContCopyConstruct(c, d)
    \/ \E c \in Conts : \E d \in Conts : ContainersOnly /\ ContCopyAssign(c, d)

InitCopy == InitDefaultParam /\ InitPolicy /\ InitCont

SpecCopy == InitCopy /\ [][NextCopy]_vars

\* Classification: the header and the two types are drawn at the start.
InitTypes ==
    /\ request \in [op : {"classify"}, header : Headers, T1 : AllTypes, T2 : AllTypes]
    /\ resolution = [op |-> "none"]

InitClassify == InitDefaultParam /\ InitTypes /\ InitCont

NextClassify == Classify

SpecClassify == InitClassify /\ [][NextClassify]_vars

\* Direct calls of the policies' impl on operands of every primitive type.
InitCalls ==
    /\ request \in ImplCalls \cup ScalarPolicyCalls
    /\ resolution = [op |-> "none"]

InitImpl == InitDefaultParam /\ InitCalls /\ InitCont

NextImpl == CallImpl \/ CallScalarPolicy

SpecImpl == InitImpl /\ [][NextImpl]_vars

\* Serialisation of containers of int, bool and text elements.
RenderTypes == {"int", "bool", "string"}
InitRenderable ==
    /\ cont \in [Conts -> [T : RenderTypes, unit : {one}, value_ : SeqsUpTo(MaxLen)]]
    /\ cres = NoCres("init")
    /\ copied = [param |-> NoCopy, cont |-> NoCopy]

InitRender == InitDefaultParam /\ InitPolicy /\ InitRenderable

NextRender ==
    \/ \E c \in Conts : Render(c)
    \/ \E c \in Conts : \E v \in Elems : SetOne(c, v)

SpecRender == InitRender /\ [][NextRender]_vars

\* Calls executed statement by statement, with handlers that may call back.
\* Registration happens between calls; a call, once begun, runs on.
InitSteps == InitDefaultParam /\ InitPolicy /\ InitCont

NextSteps ==
    \/ \E p \in Notifiers : \E o \in Objs \cup {NULL} :
          frames = << >> /\ AddObserver(p, o)
    \/ \E o \in Objs : \E h \in StepHandlers :
          frames = << >> /\ SetNotificationHandler(o, "TE", h)
    \/ \E fn \in {"setValue", "assign"} : \E p \in Notifiers : \E v \in NotifyValues :
          Call(fn, p, v)
    \/ Store
    \/ NotifyNext
    \/ EndLoop
    \/ Return

SpecSteps == InitSteps /\ [][NextSteps]_vars /\ WF_vars(Step)

\* Elementwise operations on int containers of up to MaxLen + 1 elements,
\* so that two different sizes above one occur.
InitSized ==
    /\ cont \in [Conts -> [T : {"int"}, unit : {one}, value_ : SeqsUpTo(MaxLen + 1)]]
    /\ cres = NoCres("init")
    /\ copied = [param |-> NoCopy, cont |-> NoCopy]

InitBroadcast == InitDefaultParam /\ InitPolicy /\ InitSized

NextBroadcast == \E op \in ArithOps : ElementWiseBinaryOp(op)

SpecBroadcast == InitBroadcast /\ [][NextBroadcast]_vars

\* Registrations and the mutations that notify them.
InitObservers == InitDefaultParam /\ InitPolicy /\ InitCont

NextObservers ==
    \/ \E p \in Notifiers : \E o \in Objs \cup {NULL} : AddObserver(p, o)
    \/ \E p \in Notifiers : \E o \in Objs \cup {NULL} : RemoveObserver(p, o)
    \/ \E p \in Notifiers : \E v \in NotifyValues : SetValue(p, v)
    \/ \E p \in Notifiers : \E v \in NotifyValues : Assign(p, v)
    \/ \E o \in Objs : \E h \in NotifyHandlerIds : SetNotificationHandler(o, "TE", h)

SpecObservers == InitObservers /\ [][NextObservers]_vars

\* Copies of Parameters that carry registrations and handlers; one object
\* serves as the observer of both.
InitShared == InitDefaultParam /\ InitPolicy /\ InitCont

NextShared ==
    \/ \E p \in Objs : \E o \in Notifiers : AddObserver(p, o)
    \/ \E p \in Objs : \E o \in Notifiers : RemoveObserver(p, o)
    \/ \E o \in Notifiers : \E T \in {"TE", "TR"} : SetNotificationHandler(o, T, "h1")
    \/ \E p \in Objs : \E q \in Objs : CopyConstruct(p, q)
    \/ \E p \in Objs : \E q \in Objs : CopyAssign(p, q)
    \/ \E p \in Objs : \E v \in NotifyValues : SetValue(p, v)

SpecShared == InitShared /\ [][NextShared]_vars

\* Declarations, lookups and visits of the registry.
InitRegistry == InitDefaultParam /\ InitPolicy /\ InitCont

NextRegistry ==
    \/ \E x \in ParamPtrs : Add(x)
    \/ \E n \in Names : Find(n)
    \/ ForEach

SpecRegistry == InitRegistry /\ [][NextRegistry]_vars

\* Policy resolution: the request is drawn at the start, then resolved.
InitRequest ==
    /\ request \in Requests
    /\ resolution = [op |-> "none"]

NextPolicy == Lookup \/ ResolveOperator

InitLookup == InitDefaultParam /\ InitRequest /\ InitCont

SpecPolicy == InitLookup /\ [][NextPolicy]_vars

\* The typed containers: indexed access, set, and the binary operators.
NextCont ==
    \/ \E c \in Conts : \E i \in 0..(MaxLen + 1) : IndexGet(c, i)
    \/ \E c \in Conts : \E i \in 0..(MaxLen + 1) : \E v \in Elems : IndexSet(c, i, v)
    \/ \E c \in Conts : \E v \in Elems : SetOne(c, v)
    \/ \E c \in Conts : \E seq \in SeqsUpTo(MaxLen) : SetAll(c, seq)
    \/ \E c \in Conts : ReadVal(c)
    \/ \E c \in Conts : ReadVals(c)
    \/ \E c \in Conts : ReadSize(c)
    \/ \E c \in Conts : \E v \in Elems : AssignOne(c, v)
    \/ \E c \in Conts : \E v \in Elems : AssignConverted(c, v)
    \/ \E op \in ArithOps : BinaryOperator(op)
    \/ \E op \in ArithOps : ElementWiseBinaryOp(op)

InitOperands == InitDefaultParam /\ InitPolicy /\ InitContainers

SpecCont == InitOperands /\ [][NextCont]_vars

(***************************************************************************)
(* Properties.                                                             *)
(***************************************************************************)

IsEnumerator(x) == DOMAIN x = {"etype", "ord"}

\* The ParameterValue that holds what the last mutation of p stored.
StoredValue(p) ==
    IF IsEnumerator(stored[p])
    THEN EnumHolder(stored[p].ord, stored[p].etype)
    ELSE stored[p]

\* number of positions of sequence sq that satisfy Test
CountIn(sq, Test(_)) == Cardinality({ i \in 1..Len(sq) : Test(sq[i]) })

MutationOps == {"setValue", "assign", "setEnum"}

\* C1: after setEnum, getEnum<E>() returns the enumerator last stored when it
\* was stored as type E and fails with the type-mismatch error for any other
\* enum type; whatever getEnum answered, the Parameter still holds the stored
\* enumerator.
C1_EnumRoundTrip ==
    (last.op = "getEnum" /\ IsEnumerator(stored[last.obj])) =>
        /\ last.res = IF stored[last.obj].etype = last.T
                      THEN Returned(stored[last.obj])
                      ELSE Threw("runtime_error")
        /\ value_[last.obj] = StoredValue(last.obj)

\* getEnum<ProSat>() fails on a stored ScanMode::ModeB, whose integer 1 is also
\* ProSat::On.
C1_Witness ==
    /\ last.op = "getEnum" /\ last.T = "ProSat"
    /\ stored[last.obj] = [etype |-> "ScanMode", ord |-> 1]
    /\ last.res.status = "runtime_error"

\* C2: every operation that replaces the value (setValue, operator=(T),
\* setEnum) calls onNotified once for each registration of each observer.
C2_MutationNotifies ==
    last.op \in MutationOps =>
        \A o \in Objs :
            CountIn(calls, LAMBDA c : c.observer = o /\ c.notifier = last.obj)
              = CountIn(observers_[last.obj], LAMBDA x : x = o)

\* C3: each notification of an observer runs exactly the handler registered
\* for the notifier's runtime type, and nothing (and no error) when none is
\* registered for that exact type; one onNotified per non-null registration.
C3_HandlerByRuntimeType ==
    /\ \A i \in 1..Len(calls) :
          /\ calls[i].handler
                = handlers_[calls[i].observer][DynType(calls[i].notifier)]
          /\ calls[i].notifier = last.obj
    /\ last.op \in {"setValue", "assign", "notifyObservers"} =>
          /\ Len(calls) = CountIn(observers_[last.obj], LAMBDA x : x # NULL)
          /\ last.res.status = "ok"

\* One notification reaches an observer with a handler for TE, which runs,
\* and an observer that has handlers for Parameter and TR only, where none runs.
C3_Witness ==
    /\ Len(calls) = 2
    /\ \E i \in 1..2 : calls[i].handler \in HandlerIds
    /\ \E i \in 1..2 :
          /\ calls[i].handler = NoHandler
          /\ handlers_[calls[i].observer]["Parameter"] \in HandlerIds
          /\ handlers_[calls[i].observer]["TR"] \in HandlerIds

AddSubListed ==
    {<<"scalar_tag", "scalar_tag">>, <<"eigen_quat_tag", "eigen_quat_tag">>}
      \cup { <<"scalar_tag", c>> : c \in VecMat }
      \cup { <<c, "scalar_tag">> : c \in VecMat }
      \cup { <<c, c>> : c \in VecMat }

Resolved == resolution.op # "none"

\* C4: an enabled Add/Subtract entry accepts the operand units exactly when
\* they are equal and then yields that unit; with unequal units the operator
\* is rejected and computes nothing.
C4_AddSubEqualUnits ==
    (Resolved /\ request.op \in {"add_op", "sub_op"} /\ resolution.enabled
       /\ <<request.c1, request.c2>> \in AddSubListed) =>
        /\ resolution.unit.ok <=> (request.ux = request.uy)
        /\ resolution.unit.ok => resolution.unit.unit = request.ux
        /\ (request.ux # request.uy) => ~resolution.computed

\* colvec - colvec with units metre and second is rejected by operator-.
C4_Witness ==
    /\ resolution.op = "-" /\ resolution.enabled
    /\ request.c1 = "eigen_colvec_tag" /\ request.c2 = "eigen_colvec_tag"
    /\ request.ux = [m |-> 1, s |-> 0] /\ request.uy = [m |-> 0, s |-> 1]
    /\ ~resolution.unit.ok /\ ~resolution.computed

\* C5: an enabled Multiply, Dot, Cross or ElementwiseMultiply entry accepts
\* any two operand units and yields their product.
C5_ProductUnit ==
    (Resolved /\ resolution.enabled
       /\ request.op \in {"mul_op", "dot_op", "cross_op", "coefw_mul_op"}) =>
        /\ resolution.unit.ok
        /\ resolution.unit.unit = UnitMul(request.ux, request.uy)

\* C6: an enabled Divide entry accepts any two operand units and yields the
\* quotient of the left unit by the right unit.
C6_QuotientUnit ==
    (Resolved /\ resolution.enabled /\ request.op = "div_op") =>
        /\ resolution.unit.ok
        /\ resolution.unit.unit = UnitDiv(request.ux, request.uy)

NoEntryExamples ==
    { <<"bool_tag", "bool_tag", "add_op">>, <<"string_tag", "string_tag", "sub_op">>,
      <<"scalar_tag", "bool_tag", "add_op">>,
      <<"eigen_colvec_tag", "eigen_rowvec_tag", "add_op">> }

\* C7: a triple without an explicit policy entry is not enabled, and the
\* container operator for it is rejected without computing anything.
C7_NoEntryNotEnabled ==
    (Resolved /\ (\/ <<request.c1, request.c2>> \notin DOMAIN EntriesOf(request.table, request.op)
                  \/ (/\ request.table = "operation_policy"
                      /\ <<request.c1, request.c2, request.op>> \in NoEntryExamples))) =>
        /\ ~resolution.enabled
        /\ ~resolution.computed
        /\ ~resolution.unit.ok

\* Boolean + Boolean reaches operator+ and is rejected.
C7_Witness ==
    /\ resolution.op = "+" /\ ~resolution.enabled /\ ~resolution.computed
    /\ request.c1 = "bool_tag" /\ request.c2 = "bool_tag"
    /\ request.ux = request.uy

BinaryOps == {"+", "-", "*", "/", "elementWiseBinaryOp"}

\* C8: a binary operation with an operand of zero elements fails with an
\* empty-value error and yields no value.
C8_EmptyOperandFails ==
    (cres.op \in BinaryOps /\ cres.status # "ill_formed"
       /\ (cont["lhs"].value_ = << >> \/ cont["rhs"].value_ = << >>)) =>
        /\ cres.status = "runtime_error: empty parameter values"
        /\ cres.value = << >>

\* C9: c[i] with i >= size fails with out_of_range and leaves the container as
\* it was; with i < size it reads, or writes, exactly element i.
C9_IndexedAccess ==
    (cres.op \in {"index_get", "index_set"}) =>
        LET n == Len(cres.before)
            now == cont[cres.c].value_
        IN  /\ cres.i >= n => (cres.status = "out_of_range" /\ now = cres.before)
            /\ cres.i < n =>
                 /\ cres.status = "ok"
                 /\ Len(now) = n
                 /\ cres.op = "index_get" =>
                      (now = cres.before /\ cres.value = << cres.before[cres.i + 1] >>)
                 /\ cres.op = "index_set" =>
                      \A k \in 1..n :
                         now[k] = IF k = cres.i + 1 THEN cres.arg ELSE cres.before[k]

\* A write at index size() of a non-empty container is refused.
C9_Witness ==
    /\ cres.op = "index_set" /\ cres.before # << >>
    /\ cres.i = Len(cres.before) /\ cres.status = "out_of_range"
    /\ cont[cres.c].value_ = cres.before

\* C10: extraction as kind T returns the stored value when T is the active
\* kind and fails otherwise; it never returns a value of another kind than
\* the one last stored, and leaves the Parameter as it was.
C10_ExtractActiveKind ==
    last.op = "extract" =>
        /\ last.res = IF last.T = StoredValue(last.obj).kind
                      THEN Returned(StoredValue(last.obj))
                      ELSE Threw("bad_variant_access")
        /\ last.res.status = "ok" => last.res.val.kind = StoredValue(last.obj).kind
        /\ value_[last.obj] = StoredValue(last.obj)

\* Extracting int from a Parameter that holds bool 1 fails.
C10_Witness ==
    /\ last.op = "extract" /\ last.T = "int"
    /\ stored[last.obj] = PrimValue("bool", 1)
    /\ last.res.status = "bad_variant_access"

\* C11 as stated: Parameters of different kinds compare unequal; Parameters
\* of the same kind compare equal iff they hold equal values (enum holders:
\* same integer and same enum type); != is the negation of ==.
C11_EqualIffSameValue ==
    last.op = "compare" =>
        LET a == value_[last.obj]
            b == value_[last.T]
        IN  /\ last.res.val.eq <=> (a = b)
            /\ last.res.val.ne <=> ~last.res.val.eq

\* C11 amended: as above, except that Eigen vector, matrix and quaternion
\* values compare equal iff they agree within the relative precision 1e-12
\* of isApprox: equal values compare equal, values whose payloads differ
\* compare unequal, and non-zero values a few epsilons apart compare equal.
\* Observers, handlers and type_index_ take no part.
C11_EqualityByKind ==
    last.op = "compare" =>
        LET a == value_[last.obj]
            b == value_[last.T]
            eq == last.res.val.eq
        IN  /\ a.kind # b.kind => ~eq
            /\ (a.kind = b.kind /\ a.kind \notin EigenKinds) => (eq <=> (a = b))
            /\ (a.kind = b.kind /\ a.kind \in EigenKinds) =>
                  /\ a = b => eq
                  /\ a.v # b.v => ~eq
                  /\ (a.v = b.v /\ a.v > 0) => eq
                  /\ (a.v = 0 /\ b.v = 0 /\ a.fine # b.fine) => ~eq
            /\ last.res.val.ne <=> ~eq

\* Two column vectors one epsilon apart compare equal, on Parameters that
\* differ in observers and handlers.
C11_Witness ==
    /\ last.op = "compare" /\ last.obj # last.T
    /\ value_[last.obj] = EigenValue("Vector3d", 1, 0)
    /\ value_[last.T] = EigenValue("Vector3d", 1, 1)
    /\ last.res.val.eq /\ ~last.res.val.ne
    /\ observers_[last.obj] # observers_[last.T]
    /\ handlers_[last.obj] # handlers_[last.T]

\* C12: after a copy of a Parameter or of a container, the copy holds the
\* value the original had and compares equal to it; the copy keeps that value
\* until the copy itself is written, whatever is done to the original, and
\* the original keeps it until the original itself is written, whatever is
\* done to the copy.
C12_CopyIndependent ==
    /\ copied.param.dst # "-" =>
          LET r == copied.param
          IN  /\ ~r.dstWritten => value_[r.dst] = r.at[1]
              /\ ~r.srcWritten => value_[r.src] = r.at[1]
              /\ (~r.dstWritten /\ ~r.srcWritten) =>
                    operator_eq(value_[r.dst], value_[r.src])
    /\ copied.cont.dst # "-" =>
          LET r == copied.cont
          IN  /\ ~r.dstWritten => cont[r.dst].value_ = r.at[1]
              /\ ~r.srcWritten => cont[r.src].value_ = r.at[1]
              /\ (~r.dstWritten /\ ~r.srcWritten) =>
                    ContEquals(cont[r.dst], cont[r.src])

\* An indexed write on the copy of a two-element container changed the copy
\* and left the original, not written since, with the elements it had.
C12_Witness ==
    /\ cres.op = "index_set" /\ cres.status = "ok"
    /\ cres.c = copied.cont.dst
    /\ ~copied.cont.srcWritten
    /\ Len(copied.cont.at[1]) = 2
    /\ cont[copied.cont.src].value_ = copied.cont.at[1]
    /\ cont[copied.cont.dst].value_ # copied.cont.at[1]

\* the category the claim names for each supported primitive type
ExpectedCategory(T) ==
    CASE T \in {"int", "double"} -> "scalar_tag"
      [] T = "bool" -> "bool_tag"
      [] T = "string" -> "string_tag"
      [] T = "Quaterniond" -> "eigen_quat_tag"
      [] T = "Vector3d" -> "eigen_colvec_tag"
      [] T = "RowVector3d" -> "eigen_rowvec_tag"
      [] T = "Matrix3d" -> "eigen_mat_tag"

\* C13: every supported primitive type is classified, in either header, as
\* exactly the one category the claim names for it, the same for both
\* operand positions, and is in the type list of that category only.
C13_ClassificationTotal ==
    resolution.op = "classify" =>
        /\ request.T1 \in PrimitiveTypes =>
              /\ resolution.c1 \in Categories
              /\ resolution.c1 = ExpectedCategory(request.T1)
              /\ { tag \in Categories : is_category_of(request.T1, tag) }
                    = { resolution.c1 }
        /\ request.T2 \in PrimitiveTypes =>
              resolution.c2 = ExpectedCategory(request.T2)
        /\ request.T1 = request.T2 => resolution.c1 = resolution.c2

\* bool and Quaterniond classified by the older header: Boolean, not Scalar,
\* and Quaternion, not a vector or matrix category.
C13_Witness ==
    /\ resolution.op = "classify" /\ request.header = "primitive_operators"
    /\ request.T1 = "bool" /\ resolution.c1 = "bool_tag"
    /\ request.T2 = "Quaterniond" /\ resolution.c2 = "eigen_quat_tag"

\* C14: a type outside the supported primitive set is rejected by the
\* classification and is given no category.
C14_UnsupportedRejected ==
    (resolution.op = "classify" /\ request.T1 \in UnsupportedTypes) =>
        /\ resolution.c1 = StaticError
        /\ resolution.c1 \notin Categories


Called == resolution.op = "impl"
ScalarCall ==
    /\ Called /\ resolution.enabled
    /\ request.c1 = "scalar_tag" /\ request.c2 = "scalar_tag"
    /\ request.opn \in ArithOps

\* x is the number a op b in arithmetic of type T (int division truncates;
\* nothing is asked of an int division by zero).
IsArithmeticResult(x, op, a, b, T) ==
    CASE op = "add_op" -> x.den = 1 /\ x.num = a + b
      [] op = "sub_op" -> x.den = 1 /\ x.num = a - b
      [] op = "mul_op" -> x.den = 1 /\ x.num = a * b
      [] op = "div_op" ->
           IF b = 0 THEN T = "int" \/ x.den = 0
           ELSE IF T = "int" THEN x.den = 1 /\ x.num = a \div b
           ELSE x.den > 0 /\ x.num * b = a * x.den

\* C15: Add, Subtract, Multiply and Divide on two scalars return the common
\* numeric type of the operands (int for two ints, double as soon as one is
\* double) holding the arithmetic result in that type.
C15_ScalarCommonType ==
    ScalarCall =>
        /\ resolution.res.status = "ok"
        /\ resolution.res.val.type =
             (IF request.T1 = "int" /\ request.T2 = "int" THEN "int" ELSE "double")
        /\ IsArithmeticResult(resolution.res.val.val, request.opn,
                              request.a, request.b, resolution.res.val.type)

VecMatTypes == {"Vector3d", "RowVector3d", "Matrix3d"}

\* C16: for every arithmetic op, scalar s and vector-or-matrix V, the
\* (Scalar, V) entry is enabled and yields V's type with elements s op v_i, and
\* the (V, Scalar) entry is enabled and yields elements v_i op s.
C16_ScalarElementwise ==
    /\ (/\ Called /\ request.opn \in ArithOps
        /\ request.c1 = "scalar_tag" /\ request.T2 \in VecMatTypes) =>
          /\ (request.table = "operation_policy" /\ request.c2 = category(request.T2))
                => resolution.enabled
          /\ resolution.enabled =>
                /\ resolution.res.status = "ok"
                /\ resolution.res.val.type = request.T2
                /\ IsArithmeticResult(resolution.res.val.val, request.opn,
                                      request.a, request.b, "double")
    /\ (/\ Called /\ request.opn \in ArithOps
        /\ request.T1 \in VecMatTypes /\ request.c2 = "scalar_tag") =>
          /\ (request.table = "operation_policy" /\ request.c1 = category(request.T1))
                => resolution.enabled
          /\ resolution.enabled =>
                /\ resolution.res.status = "ok"
                /\ resolution.res.val.type = request.T1
                /\ IsArithmeticResult(resolution.res.val.val, request.opn,
                                      request.a, request.b, "double")
    /\ resolution.op = "functor" =>
          /\ resolution.res.val.type = request.T2
          /\ IsArithmeticResult(resolution.res.val.val, request.opn,
                                request.a, request.b, "double")

\* The result category the claim gives each structured product.
ProductShapes ==
    [ pr \in {<<"eigen_rowvec_tag", "eigen_colvec_tag">>} |-> "scalar_tag" ]
      @@ [ pr \in {<<"eigen_colvec_tag", "eigen_rowvec_tag">>,
                   <<"eigen_mat_tag", "eigen_mat_tag">>} |-> "eigen_mat_tag" ]
      @@ [ pr \in {<<"eigen_mat_tag", "eigen_colvec_tag">>} |-> "eigen_colvec_tag" ]
      @@ [ pr \in {<<"eigen_rowvec_tag", "eigen_mat_tag">>} |-> "eigen_rowvec_tag" ]

StructuredProduct ==
    /\ Called /\ request.opn = "mul_op"
    /\ request.T1 \in VecMatTypes /\ request.T2 \in VecMatTypes
    /\ request.c1 = category(request.T1) /\ request.c2 = category(request.T2)

SameShapeOps == {"add_op", "sub_op", "coefw_mul_op", "coefw_div_op"}

StructuredElementwise ==
    /\ Called /\ request.opn \in SameShapeOps
    /\ request.T1 \in VecMatTypes /\ request.T2 \in VecMatTypes
    /\ request.c1 = category(request.T1) /\ request.c2 = category(request.T2)

\* C18: Add, Subtract, ElementwiseMultiply and ElementwiseDivide of two
\* vector-or-matrix operands are enabled only for operands of one concrete
\* shape (column/column, row/row, matrix/matrix) and then return that shape,
\* computed coefficient by coefficient; a mixed-shape pair is not enabled.
C18_SameShapeElementwise ==
    StructuredElementwise =>
        /\ request.T1 # request.T2 => ~resolution.enabled
        /\ (request.T1 = request.T2 /\ request.table = "operation_policy") =>
             resolution.enabled
        /\ resolution.enabled =>
             /\ request.T1 = request.T2
             /\ resolution.res.status = "ok"
             /\ ShapeOf(resolution.res.val.type) = ShapeOf(request.T1)
             /\ IsArithmeticResult(resolution.res.val.val,
                                   IF request.opn = "coefw_mul_op" THEN "mul_op"
                                   ELSE IF request.opn = "coefw_div_op" THEN "div_op"
                                   ELSE request.opn,
                                   request.a, request.b, "double")

UnitlessEntry ==
    \/ request.op \in LogicOps \cup {"not_op"}
    \/ request.op = "add_op" /\ request.c1 = "string_tag" /\ request.c2 = "string_tag"

\* C19: every enabled policy entry has a unit rule; the rule of the Boolean
\* entries and of text Add accepts exactly dimensionless operands and yields
\* the dimensionless unit, so operator+ on two dimensionless text containers
\* computes.
C19_UnitRuleEverywhere ==
    (Resolved /\ resolution.enabled) =>
        /\ op_policy(request.table, request.c1, request.c2, request.op).unit_rule
             # "absent"
        /\ UnitlessEntry =>
             /\ resolution.unit.ok <=>
                  (request.ux = one /\ (request.c2 = VoidTag \/ request.uy = one))
             /\ resolution.unit.ok => resolution.unit.unit = one
        /\ (resolution.op = "+" /\ UnitlessEntry
              /\ request.ux = one /\ request.uy = one) => resolution.computed

OperatorSymbols == {"+", "-", "*", "/"}
OpOf(sym) == CHOOSE op \in ArithOps : OperatorOf(op) = sym

\* C20: a container's operator + - * / leaves both operands as they are and
\* returns a container of exactly one element: impl applied to the first
\* element of each operand, of the policy's return type, with the unit the
\* policy's unit_of gives.
C20_OperatorFromFirstElements ==
    [][ cres'.op \in OperatorSymbols =>
          /\ cont' = cont
          /\ cres'.status = "ok" =>
               LET op == OpOf(cres'.op)
                   T1 == cont["lhs"].T
                   T2 == cont["rhs"].T
                   c1 == category(T1)
                   c2 == category(T2)
               IN  /\ Len(cres'.value) = 1
                   /\ cres'.T = op_return_t("operation_policy", c1, c2, op, T1, T2)
                   /\ cres'.T # StaticError
                   /\ unit_of(op_policy("operation_policy", c1, c2, op).unit_rule,
                              cont["lhs"].unit, cont["rhs"].unit)
                        = Accepted(cres'.unit)
                   /\ (cont["lhs"].value_ # << >> /\ cont["rhs"].value_ # << >>) =>
                        cres'.value[1] =
                          impl("operation_policy", c1, c2, op, T1, T2,
                               cont["lhs"].value_[1], cont["rhs"].value_[1]).val.val
      ]_vars

\* int 1 0 minus int 0 1, both in metres, has returned the one element 1
C20_Witness ==
    /\ cres.op = "-" /\ cres.status = "ok"
    /\ Len(cres.operands) = 2
    /\ cres.operands[1].T = "int" /\ cres.operands[2].T = "int"
    /\ cres.operands[1].value_ = << 1, 0 >>
    /\ cres.operands[2].value_ = << 0, 1 >>
    /\ cres.value = << Number(1) >> /\ cres.T = "int"
    /\ cres.unit = cres.operands[1].unit
    /\ cont["lhs"] = cres.operands[1] /\ cont["rhs"] = cres.operands[2]

\* C21: assigning a single primitive value to a container leaves it with
\* exactly one element, the assigned value, whatever its size was.
C21_AssignLeavesOneElement ==
    cres.op \in {"assign", "assign_converted"} =>
        cont[cres.c].value_ = << cres.arg >>

\* C22: the read accessors leave the container as it was; Val() is the first
\* element, or the default value of the element type when there is none
\* (zero for the arithmetic types and bool); Vals() is the whole sequence;
\* after Set(seq) the container holds seq, and Size() is the number of
\* elements.
C22_ReadAccessors ==
    /\ cres.op \in {"Val", "Vals", "Size"} => cont[cres.c].value_ = cres.before
    /\ cres.op = "Val" =>
         /\ Len(cres.value) = 1
         /\ IF cres.before # << >> THEN cres.value[1] = cres.before[1]
            ELSE IF cres.T \in {"int", "double", "bool"} THEN cres.value[1] = 0
            ELSE cres.value[1] \in Elems
    /\ cres.op = "Vals" => cres.value = cres.before
    /\ cres.op = "Size" => cres.arg = Len(cres.before)
    /\ cres.op = "set_all" => cont[cres.c].value_ = cres.value

\* Val() of an empty int container has returned 0
C22_Witness ==
    /\ cres.op = "Val" /\ cres.before = << >> /\ cres.T = "int"
    /\ cres.value = << 0 >> /\ cont[cres.c].value_ = << >>

\* the elements of seq from the i-th on, each as text, separated by ", "
RECURSIVE Joined(_, _, _)
Joined(T, seq, i) ==
    IF i > Len(seq) THEN << >>
    ELSE IF i = Len(seq) THEN StreamOut(T, seq[i])
    ELSE StreamOut(T, seq[i]) \o << ",", " " >> \o Joined(T, seq, i + 1)

Rendered == cres.op = "ValueAsString"
WellFormatted ==
    /\ IF Len(cres.before) = 1
       THEN cres.value = StreamOut(cres.T, cres.before[1])
       ELSE cres.value = << "[" >> \o Joined(cres.T, cres.before, 1) \o << "]" >>
    /\ (cres.T = "bool" /\ Len(cres.before) = 1) =>
          cres.value \in { << "t", "r", "u", "e" >>, << "f", "a", "l", "s", "e" >> }
SameOnRepeat ==
    (cres.op = "ValueAsString" /\ cres'.op = "ValueAsString" /\ cres'.c = cres.c)
       => cres'.value = cres.value

\* C23: ValueAsString renders one element bare and any other number of
\* elements as a bracketed list separated by ", ", booleans as words; the
\* result is never the empty string and repeated calls give the same text.
C23_RenderFormat ==
    [][ /\ Rendered' => (WellFormatted' /\ cres'.value # << >>)
        /\ SameOnRepeat ]_vars

\* C23 amended: as C23, the result being the empty string only for a
\* container of exactly one element that is itself the empty text.
C23_RenderFormatUnlessEmptyText ==
    [][ /\ Rendered' =>
             /\ WellFormatted'
             /\ cres'.value = << >> <=>
                  (cres'.T = "string" /\ cres'.before = << 0 >>)
        /\ SameOnRepeat ]_vars

\* a container holding the one empty text has been rendered as the empty
\* string
C23_Witness ==
    /\ Rendered /\ cres.T = "string" /\ cres.before = << 0 >>
    /\ cres.value = << >>

\* a handler h is registered on an observer of p for p's type
OnPath(p, h) ==
    \E i \in 1..Len(observers_[p]) :
       /\ observers_[p][i] # NULL
       /\ handlers_[observers_[p][i]][DynType(p)] = h
Registrations(p) == { i \in 1..Len(observers_[p]) : observers_[p][i] # NULL }
IsSet == last.op \in {"setValue", "assign"}
Started == IsSet /\ last.res = Running
Completed == IsSet /\ last.res = Void /\ frames = << >>
\* every nested call sits on a call that is inside its notification loop
ReenteredFromInside ==
    \A k \in 2..Len(frames) :
       /\ Stmt(frames[k - 1]) = "notify" /\ frames[k - 1].nested
       /\ frames[k].obj = frames[k - 1].obj
\* a callback that calls back has a new call on top of its caller's
ReentersEveryTime ==
    (Started /\ calls # << >> /\ calls[Len(calls)].handler = Setter)
       => Len(frames) > calls[Len(calls)].depth
OnePerRegistration ==
    (Completed /\ ~OnPath(last.obj, Setter) /\ ~OnPath(last.obj, SetterOnce)) =>
       /\ Len(calls) = Cardinality(Registrations(last.obj))
       /\ \A j \in 1..Len(calls) : calls[j].depth = 1

\* C24: a callback that sets the notifier re-enters the notification from
\* inside the outer one, no guard stopping it; with a callback that does so
\* every time the original call never returns; with no callback that sets
\* the notifier every call returns after one onNotified per registration.
C24_NoReentrancyGuard ==
    /\ [](ReenteredFromInside /\ ReentersEveryTime /\ OnePerRegistration)
    /\ [](Completed => ~OnPath(last.obj, Setter))
    /\ ((Started /\ ~OnPath(last.obj, Setter)) ~> Completed)

\* the recursion of a callback that always sets the notifier has used up
\* the stack
C24_Witness ==
    /\ IsSet /\ OnPath(last.obj, Setter) /\ last.res = StackOverflow
    /\ Len(frames) = MaxDepth

\* what the callbacks that read the notifier saw: the value of the call that
\* notifies them or, once a callback of that loop has called back, the value
\* the nested call stored
CallbacksSeeNewValue ==
    \A j \in 1..Len(calls) :
       calls[j].handler # NoHandler =>
          calls[j].seen = IF calls[j].nested THEN HandlerTarget ELSE calls[j].arg
NothingNotifiedBeforeStore ==
    (Len(frames) = 1 /\ Stmt(frames[1]) = "store") => calls = << >>
AllCallbacksDoneAtReturn ==
    Completed =>
       /\ Len(calls) >= Cardinality(Registrations(last.obj))
       /\ \A i \in Registrations(last.obj) :
             \E j \in 1..Len(calls) :
                calls[j].observer = observers_[last.obj][i] /\ calls[j].depth = 1

ElementWise == cres.op = "elementWiseBinaryOp"
Max(a, b) == IF a >= b THEN a ELSE b
\* the element of seq that takes part at position i: the only one when
\* there is one
Operand(seq, i) == IF Len(seq) = 1 THEN seq[1] ELSE seq[i]

\* C26: the elementwise operation on sequences of m and n elements fails on
\* an empty operand, fails with a size mismatch when m > 1, n > 1 and
\* m # n, and else returns max(m, n) elements op(lhs[i or 0], rhs[i or 0]),
\* the left operand first; the 'Unexpected vector size' branch is never taken.
C26_Broadcast ==
    ElementWise =>
       LET l == cont["lhs"].value_
           r == cont["rhs"].value_
           m == Len(l)
           n == Len(r)
       IN  /\ cres.status # "runtime_error: unexpected vector size"
           /\ IF m = 0 \/ n = 0
              THEN cres.status = "runtime_error: empty parameter values"
              ELSE IF m > 1 /\ n > 1 /\ m # n
              THEN cres.status = "runtime_error: size mismatch"
              ELSE /\ cres.status = "ok"
                   /\ Len(cres.value) = Max(m, n)
                   /\ \A i \in 1..Max(m, n) :
                         /\ cres.value[i][1] \in ArithOps
                         /\ cres.value[i][2] = Operand(l, i)
                         /\ cres.value[i][3] = Operand(r, i)

\* one element has been applied, as the left operand, against three
C26_Witness ==
    /\ ElementWise /\ cres.status = "ok"
    /\ Len(cont["lhs"].value_) = 1 /\ Len(cont["rhs"].value_) = 3
    /\ cont["lhs"].value_[1] # cont["rhs"].value_[3]
    /\ Len(cres.value) = 3

Count(s, x) == Cardinality({ i \in 1..Len(s) : s[i] = x })
\* t is s with every occurrence of o taken out and nothing else touched
WithoutEvery(s, t, o) ==
    /\ Count(t, o) = 0
    /\ \A x \in (Objs \cup {NULL}) \ {o} : Count(t, x) = Count(s, x)
    /\ \E f \in [1..Len(t) -> 1..Len(s)] :
          /\ \A i \in 1..Len(t) : s[f[i]] = t[i]
          /\ \A i, j \in 1..Len(t) : i < j => f[i] < f[j]
    /\ Count(s, o) = 0 => t = s
\* the observers the calls of onNotified went to, in the order of the calls
NotifiedOf(log) == [j \in 1..Len(log) |-> log[j].observer]
Present(s) == SelectSeq(s, LAMBDA x : x # NULL)

\* C27: a mutation notifies exactly the registrations still present, in
\* registration order and once per registration; removeObserver(o) removes
\* every registration of o, and removing an observer never added changes
\* nothing.
C27_NotifiedAreRegistered ==
    [][ /\ \A p \in Notifiers : \A o \in Objs \cup {NULL} :
             /\ AddObserver(p, o) =>
                   /\ Len(observers_'[p]) = Len(observers_[p]) + 1
                   /\ observers_'[p][Len(observers_'[p])] = o
                   /\ \A i \in 1..Len(observers_[p]) : observers_'[p][i] = observers_[p][i]
             /\ RemoveObserver(p, o) => WithoutEvery(observers_[p], observers_'[p], o)
        /\ \A p \in Notifiers : \A v \in NotifyValues :
             (SetValue(p, v) \/ Assign(p, v)) =>
                /\ NotifiedOf(calls') = Present(observers_[p])
                /\ \A j \in 1..Len(calls') : calls'[j].notifier = p
                /\ observers_' = observers_ ]_vars

\* an observer registered twice has been notified twice by one setValue
C27_Witness ==
    /\ last.op = "setValue" /\ last.obj = "te"
    /\ observers_["te"] = << "tr", "tr" >>
    /\ NotifiedOf(calls) = << "tr", "tr" >>

Registry(p) == << observers_[p], handlers_[p] >>
RegistryAfter(p) == << observers_'[p], handlers_'[p] >>
OthersKeepRegistry(p) == \A x \in Objs \ {p} : RegistryAfter(x) = Registry(x)

\* C28: a copy of a Parameter has the observer list and the handler map of
\* the original, so a set on the copy notifies the observers the original
\* had when it was copied; registrations and handlers changed afterwards on
\* one of them leave the other as it was; copy-assignment notifies nobody.
C28_CopySharesObservers ==
    [][ /\ \A p, q \in Objs :
             (p # q /\ (CopyConstruct(p, q) \/ CopyAssign(p, q))) =>
                /\ RegistryAfter(p) = Registry(q)
                /\ RegistryAfter(q) = Registry(q)
                /\ calls' = << >>
        /\ \A p \in Objs :
             /\ \A o \in Objs :
                  (AddObserver(p, o) \/ RemoveObserver(p, o)) =>
                     /\ OthersKeepRegistry(p)
                     /\ handlers_'[p] = handlers_[p]
             /\ \A T \in Types : \A h \in HandlerIds :
                  SetNotificationHandler(p, T, h) =>
                     /\ OthersKeepRegistry(p)
                     /\ observers_'[p] = observers_[p]
             /\ \A v \in NotifyValues :
                  SetValue(p, v) =>
                     /\ NotifiedOf(calls') = Present(observers_[p])
                     /\ \A j \in 1..Len(calls') :
                           /\ calls'[j].notifier = p
                           /\ calls'[j].handler = handlers_[calls'[j].observer][DynType(p)]
                     /\ \A x \in Objs : RegistryAfter(x) = Registry(x) ]_vars

\* a set on the copy has notified an observer that was registered on the
\* original only, and the original has since lost it
C28_Witness ==
    /\ copied.param.dst = "tr" /\ copied.param.src = "te"
    /\ last.op = "setValue" /\ last.obj = "tr"
    /\ observers_["tr"] = << "te" >> /\ observers_["te"] = << >>
    /\ NotifiedOf(calls) = << "te" >> /\ calls[1].handler = "h1"

\* the parameter added last under the name n, NULL when there is none
LatestNamed(seq, n) ==
    IF \A i \in 1..Len(seq) : Name(seq[i]) # n THEN NULL
    ELSE seq[CHOOSE i \in 1..Len(seq) :
               Name(seq[i]) = n /\ \A j \in (i + 1)..Len(seq) : Name(seq[j]) # n]

\* C29: Find(name) returns the parameter added last under that name and
\* null for a name never added; ForEach visits every added parameter once
\* per Add in insertion order, one whose name was added again included;
\* what Find can return ForEach visits.
C29_FindLatestForEachAll ==
    [][ /\ \A x \in ParamPtrs :
             Add(x) => parameters_' = Append(parameters_, x)
        /\ cres'.op = "Find" =>
             cres'.result = << LatestNamed(parameters_', cres'.arg) >>
        /\ cres'.op = "ForEach" => cres'.result = parameters_'
        /\ \A n \in Names :
             param_map_'[n] # NULL =>
                \E i \in 1..Len(parameters_') : parameters_'[i] = param_map_'[n] ]_vars

\* after a1 and then a2 were added under one name, Find has returned a2
C29_Witness ==
    /\ cres.op = "Find" /\ cres.arg = "a" /\ cres.result = << "a2" >>
    /\ Len(parameters_) >= 2
    /\ parameters_[1] = "a1" /\ parameters_[2] = "a2"

\* C30: whatever the constructions, primitive assignments, setValue and
\* setEnum calls, type_index_ is the variant index of the active kind.
C30_TypeIndexTracksKind ==
    \A p \in Objs : type_index_[p] = variant_index_of(value_[p].kind)
====
